---- MODULE Spec2Model ----
(***************************************************************************)
(* State-machine model of databasetool: the target-database admin state    *)
(* machine (restore/db_restore.rs), the sync loop (sync/logic.rs), the     *)
(* backup dump loop (backup/db_dump.rs, backup/logic.rs), the psql /       *)
(* pg_restore child-process runner and the name remapper                   *)
(* (restore/db_restore.rs), and the sequence repair                        *)
(* (utils/sequence_reset.rs, restore/verification.rs).                     *)
(*                                                                         *)
(* Database names are sequences of one-character strings so that the       *)
(* string predicates of the code (eq_ignore_ascii_case, starts_with, ...)  *)
(* are computed character by character.                                    *)
(***************************************************************************)
EXTENDS Integers, Sequences, FiniteSets, TLC

VARIABLES
    targetDbs,  \* databases that exist on the target server
    dbs0,       \* targetDbs when the current manage_target_database call began
    trace,      \* everything issued so far: SQL statements and child processes
    m_pc,       \* position inside manage_target_database
    m_name,     \* db_name_to_manage
    m_url,      \* restore_config.target_db_url: [valid, path]
    m_drop,     \* restore_config.drop_target_database_if_exists
    m_create,   \* restore_config.create_target_database_if_not_exists
    m_exists,   \* db_exists as returned by the catalog lookup
    m_result,   \* return value of manage_target_database
    pc,         \* position inside the sync / backup run ("idle": no run)
    tools,      \* the client binaries that `which` finds on PATH
    cfgList,    \* configured database list: NoList or a sequence of names
    cfgUrl,     \* [srcValid, tgtValid, tgtPath]: the configured connection URLs
    dbs,        \* databases_to_sync / databases_to_backup once determined
    cur,        \* index in dbs of the database being processed (0: none)
    dumped,     \* successfully_dumped_dbs
    staging,    \* TRUE while the timestamped staging directory exists
    archive,    \* TRUE once the archive file has been written
    result,     \* return value of the run
    op,         \* the entry point being run: "manage", "sync", "backup", "psql", "pg_restore", "verify", "reset", "rename"
    t_pc,       \* position inside execute_sql_file_with_psql / restore_database_from_dump
    t_in,       \* arguments and environment of the call: [exists, empty, ctx, src, tgt]
    t_temp,     \* the temporary SQL file: "none", "exists", "removed"
    t_wrapped,  \* TRUE when the executed file carries the truncate / replica-mode wrapping
    t_args,     \* the argument list the psql command was built with
    t_pid,      \* child.id() was Some
    t_timedOut, \* the timer of tokio::time::timeout fired
    t_out,      \* what the child returned: [status, stdout, stderr]
    t_result,   \* return value of the call
    q_pc,       \* position inside verify_restore / reset_all_sequences ("idle": no call)
    q_db,       \* the restored database: per table its id column and its sequence
    q_seqs,     \* `sequences`: the rows the catalog enumeration returned
    q_i,        \* index of the current iteration of the loop being run
    q_result,   \* return value of the call
    n_pc,       \* position of the replace_database_references call ("idle": no call)
    n_src,      \* source_db
    n_tgt,      \* target_db
    n_text,     \* sql_content
    n_out,      \* the returned String
    pgChildren, \* the PostgreSQL client commands spawned so far: [program, env]
    f_pc,       \* position inside the restore flow of restore/logic.rs ("idle": no run)
    f_list,     \* DATABASE_LIST split at the commas
    f_i,        \* index in f_list of the database being restored
    f_files,    \* the files present in the working directory
    f_isDir,    \* the working path is a directory
    f_result,   \* return value of the restore flow
    a_pc,       \* position inside create_tar_gz_archive ("idle": no call)
    a_root,     \* source_dir
    a_tree,     \* the directory tree below source_dir: relative path -> "file" or "dir"
    a_walk,     \* the entries WalkDir has still to yield
    a_entries,  \* the entry names appended to the tar builder so far
    a_result,   \* return value of create_tar_gz_archive
    u_pc,       \* position inside upload_file_to_s3 ("idle": no call)
    u_readable, \* the file to upload can be opened
    u_sends,    \* number of put_object requests sent
    u_result,   \* return value of upload_file_to_s3
    c_pc,       \* position of the database_list parsers ("idle": no call)
    c_value,    \* the database_list value of the configuration
    c_backup,   \* return value of parse_database_list_for_backup_sync
    c_restore,  \* return value of parse_database_list_for_restore
    g_pc,       \* position of the configuration loading of run_app ("idle": none)
    g_raw,      \* RawJsonConfig as read from config.json, and the chosen operation
    g_spaces,   \* AppConfig.spaces_config is Some
    g_result,   \* what load_backup_config_from_json / load_restore_config_from_json returned
    d_pc,       \* position inside download_file_from_s3 ("idle": no call)
    d_body,     \* the object body as the sequence of chunks the stream delivers
    d_written,  \* the chunks written to the destination file so far
    d_result,   \* return value of download_file_from_s3
    k_pc,       \* position inside restore_schema ("idle": no call)
    k_stmts,    \* the statements of the schema file
    k_queue,    \* the statements the running loop has still to execute
    k_next,     \* next_remaining
    k_attempts, \* attempts
    k_result    \* return value of restore_schema

manageVars == <<dbs0, m_pc, m_name, m_url, m_drop, m_create, m_exists, m_result>>
runVars == <<pc, tools, cfgList, cfgUrl, dbs, cur, dumped, staging, archive, result>>
toolVars == <<t_pc, t_in, t_temp, t_wrapped, t_args, t_pid, t_timedOut, t_out, t_result>>
seqVars == <<q_pc, q_db, q_seqs, q_i, q_result>>
renameVars == <<n_pc, n_src, n_tgt, n_text, n_out>>
restoreVars == <<f_pc, f_list, f_i, f_files, f_isDir, f_result>>
archiveVars == <<a_pc, a_root, a_tree, a_walk, a_entries, a_result>>
uploadVars == <<u_pc, u_readable, u_sends, u_result>>
parseVars == <<c_pc, c_value, c_backup, c_restore>>
configVars == <<g_pc, g_raw, g_spaces, g_result>>
downloadVars == <<d_pc, d_body, d_written, d_result>>
schemaVars == <<k_pc, k_stmts, k_queue, k_next, k_attempts, k_result>>
vars == <<targetDbs, trace, pgChildren, manageVars, runVars, op, restoreVars, archiveVars, uploadVars, parseVars, configVars, downloadVars, schemaVars, renameVars, seqVars, toolVars>>

\* no sequence repair is being run
SeqIdle ==
    /\ q_pc = "idle"
    /\ q_db = <<>>
    /\ q_seqs = <<>>
    /\ q_i = 0
    /\ q_result = "none"

\* no restore flow is being run
RestoreIdle ==
    /\ f_pc = "idle"
    /\ f_list = <<>>
    /\ f_i = 0
    /\ f_files = {}
    /\ f_isDir = FALSE
    /\ f_result = "none"

\* no archive is being written
ArchiveIdle ==
    /\ a_pc = "idle"
    /\ a_root = <<>>
    /\ a_tree = <<>>
    /\ a_walk = <<>>
    /\ a_entries = <<>>
    /\ a_result = "none"

\* no upload is being made
UploadIdle ==
    /\ u_pc = "idle"
    /\ u_readable = FALSE
    /\ u_sends = 0
    /\ u_result = "none"

\* no database_list is being parsed
ParseIdle ==
    /\ c_pc = "idle"
    /\ c_value = <<>>
    /\ c_backup = <<>>
    /\ c_restore = <<>>

\* no configuration is being loaded
ConfigIdle ==
    /\ g_pc = "idle"
    /\ g_raw = <<>>
    /\ g_spaces = FALSE
    /\ g_result = <<>>

\* no download is being made
DownloadIdle ==
    /\ d_pc = "idle"
    /\ d_body = <<>>
    /\ d_written = <<>>
    /\ d_result = "none"

\* no schema file is being restored
SchemaIdle ==
    /\ k_pc = "idle"
    /\ k_stmts = <<>>
    /\ k_queue = <<>>
    /\ k_next = <<>>
    /\ k_attempts = 0
    /\ k_result = "none"

\* no rename is being computed
RenameIdle ==
    /\ n_pc = "idle"
    /\ n_src = <<>>
    /\ n_tgt = <<>>
    /\ n_text = <<>>
    /\ n_out = <<>>

---------------------------------------------------------------------------
(* Characters and names *)

UpperCase == <<"A","B","C","D","E","F","G","H","I","J","K","L","M",
               "N","O","P","Q","R","S","T","U","V","W","X","Y","Z">>
LowerCase == <<"a","b","c","d","e","f","g","h","i","j","k","l","m",
               "n","o","p","q","r","s","t","u","v","w","x","y","z">>

\* u8::to_ascii_lowercase
to_ascii_lowercase(c) ==
    IF \E i \in 1..Len(UpperCase) : UpperCase[i] = c
    THEN LowerCase[CHOOSE i \in 1..Len(UpperCase) : UpperCase[i] = c]
    ELSE c

\* str::eq_ignore_ascii_case
eq_ignore_ascii_case(a, b) ==
    /\ Len(a) = Len(b)
    /\ \A i \in 1..Len(a) : to_ascii_lowercase(a[i]) = to_ascii_lowercase(b[i])

NamePostgres     == <<"p","o","s","t","g","r","e","s">>
NamePostgresCap  == <<"P","o","s","t","g","r","e","s">>
NameApp          == <<"a","p","p">>
NameShop         == <<"s","h","o","p">>

\* names that manage_target_database is called with in the standalone specification
ManageNames == {NamePostgres, NamePostgresCap, NameApp, NameShop}
\* database component of the configured target URL ("" when the URL has no path)
UrlPaths    == {<<>>, NamePostgres, NamePostgresCap, NameApp}

---------------------------------------------------------------------------
(* Trace helpers *)

Event(kind, db, idx, ok) == [kind |-> kind, db |-> db, idx |-> idx, ok |-> ok]

\* a spawned client command: the program and the variables set with Command::env
Child(program, env) == [program |-> program, env |-> env]

\* a Command built without any call of env
NoEnv == {}

\* command.env("PGCONNECT_TIMEOUT", "30")
ConnectTimeoutEnv == {<<"PGCONNECT_TIMEOUT", "30">>}

RECURSIVE SelectKinds(_, _)
SelectKinds(s, kinds) ==
    IF s = <<>> THEN <<>>
    ELSE IF Head(s).kind \in kinds
         THEN <<Head(s)>> \o SelectKinds(Tail(s), kinds)
         ELSE SelectKinds(Tail(s), kinds)

KindsOf(s) == [i \in 1..Len(s) |-> s[i].kind]

IsPrefix(p, s) == Len(p) <= Len(s) /\ SubSeq(s, 1, Len(p)) = p

AdminStmts == {"terminate", "drop", "create"}
ServerContact == {"connect", "exists"}

---------------------------------------------------------------------------
(* manage_target_database, restore/db_restore.rs *)

\* mutant: the database named in the path of the target URL is protected as well
DropGuardProtectsUrlDatabase(name, original_db_path) ==
    \/ eq_ignore_ascii_case(name, NamePostgres)
    \/ eq_ignore_ascii_case(name, original_db_path)

\* the mutant compares the name byte for byte
DropGuardCaseSensitive(name, original_db_path) ==
    \/ name = NamePostgres
    \/ (original_db_path = NamePostgres /\ name = original_db_path)

\* the protected-database test in front of the drop
DropGuard(name, original_db_path) ==
    \/ eq_ignore_ascii_case(name, NamePostgres)
    \/ (/\ eq_ignore_ascii_case(original_db_path, NamePostgres)
        /\ eq_ignore_ascii_case(name, original_db_path))

\* mutant: an absent database is created although create_if_not_exists is false
DecideCreatesAnyway(db_exists, drop, create, name, path) ==
    IF db_exists
    THEN IF drop
         THEN IF DropGuard(name, path)
              THEN [pc |-> "done", result |-> "ErrProtected"]
              ELSE [pc |-> "terminate", result |-> "none"]
         ELSE [pc |-> "done", result |-> "OkFalse"]
    ELSE [pc |-> "create", result |-> "none"]

\* mutant: an existing database is dropped although drop_if_exists is false
DecideDropsAnyway(db_exists, drop, create, name, path) ==
    IF db_exists
    THEN IF DropGuard(name, path)
         THEN [pc |-> "done", result |-> "ErrProtected"]
         ELSE [pc |-> "terminate", result |-> "none"]
    ELSE IF create
         THEN [pc |-> "create", result |-> "none"]
         ELSE [pc |-> "done", result |-> "ErrMissing"]

\* the if-tree that follows the existence lookup, up to the next statement
Decide(db_exists, drop, create, name, path) ==
    IF db_exists
    THEN IF drop
         THEN IF DropGuard(name, path)
              THEN [pc |-> "done", result |-> "ErrProtected"]
              ELSE [pc |-> "terminate", result |-> "none"]
         ELSE [pc |-> "done", result |-> "OkFalse"]
    ELSE IF create
         THEN [pc |-> "create", result |-> "none"]
         ELSE [pc |-> "done", result |-> "ErrMissing"]

\* Url::parse(&restore_config.target_db_url)?
M_ParseUrl ==
    /\ m_pc = "start"
    /\ IF m_url.valid
       THEN m_pc' = "connect" /\ m_result' = m_result
       ELSE m_pc' = "done" /\ m_result' = "ErrUrl"
    /\ UNCHANGED <<targetDbs, dbs0, trace, pgChildren, m_name, m_url, m_drop, m_create, m_exists, runVars, op, restoreVars, archiveVars, uploadVars, parseVars, configVars, downloadVars, schemaVars, renameVars, seqVars, toolVars>>

\* Pool::connect to <target>/postgres
M_Connect ==
    /\ m_pc = "connect"
    /\ \E net \in BOOLEAN :
         LET ok == net /\ NamePostgres \in targetDbs IN
         /\ trace' = Append(trace, Event("connect", NamePostgres, cur, ok))
         /\ pgChildren' = pgChildren
         /\ IF ok
            THEN m_pc' = "exists" /\ m_result' = m_result
            ELSE m_pc' = "done" /\ m_result' = "ErrConnect"
    /\ UNCHANGED <<targetDbs, dbs0, m_name, m_url, m_drop, m_create, m_exists, runVars, op, restoreVars, archiveVars, uploadVars, parseVars, configVars, downloadVars, schemaVars, renameVars, seqVars, toolVars>>

\* SELECT EXISTS(SELECT 1 FROM pg_database WHERE datname = $1), then the if-tree
M_Exists ==
    /\ m_pc = "exists"
    /\ \E ok \in BOOLEAN :
         /\ trace' = Append(trace, Event("exists", m_name, cur, ok))
         /\ pgChildren' = pgChildren
         /\ IF ok
            THEN LET db_exists == m_name \in targetDbs
                     d == Decide(db_exists, m_drop, m_create, m_name, m_url.path)
                 IN /\ m_exists' = IF db_exists THEN "yes" ELSE "no"
                    /\ m_pc' = d.pc
                    /\ m_result' = d.result
            ELSE /\ m_exists' = m_exists
                 /\ m_pc' = "done"
                 /\ m_result' = "ErrQuery"
    /\ UNCHANGED <<targetDbs, dbs0, m_name, m_url, m_drop, m_create, runVars, op, restoreVars, archiveVars, uploadVars, parseVars, configVars, downloadVars, schemaVars, renameVars, seqVars, toolVars>>

\* mutant: the result of the session termination is not looked at
M_TerminateIgnoresFailure ==
    /\ m_pc = "terminate"
    /\ \E ok \in BOOLEAN :
         /\ trace' = Append(trace, Event("terminate", m_name, cur, ok))
         /\ pgChildren' = pgChildren
         /\ m_pc' = "drop" /\ m_result' = m_result
    /\ UNCHANGED <<targetDbs, dbs0, m_name, m_url, m_drop, m_create, m_exists, runVars, op, restoreVars, archiveVars, uploadVars, parseVars, configVars, downloadVars, schemaVars, renameVars, seqVars, toolVars>>

\* SELECT pg_terminate_backend(pid) ... WHERE datname = $1
M_Terminate ==
    /\ m_pc = "terminate"
    /\ \E ok \in BOOLEAN :
         /\ trace' = Append(trace, Event("terminate", m_name, cur, ok))
         /\ pgChildren' = pgChildren
         /\ IF ok
            THEN m_pc' = "drop" /\ m_result' = m_result
            ELSE m_pc' = "done" /\ m_result' = "ErrTerminate"
    /\ UNCHANGED <<targetDbs, dbs0, m_name, m_url, m_drop, m_create, m_exists, runVars, op, restoreVars, archiveVars, uploadVars, parseVars, configVars, downloadVars, schemaVars, renameVars, seqVars, toolVars>>

\* DROP DATABASE "<name>" WITH (FORCE)
M_Drop ==
    /\ m_pc = "drop"
    /\ \E srv \in BOOLEAN :
         LET ok == srv /\ m_name \in targetDbs /\ m_name # NamePostgres IN
         /\ trace' = Append(trace, Event("drop", m_name, cur, ok))
         /\ pgChildren' = pgChildren
         /\ IF ok
            THEN /\ targetDbs' = targetDbs \ {m_name}
                 /\ m_pc' = "create" /\ m_result' = m_result
            ELSE /\ targetDbs' = targetDbs
                 /\ m_pc' = "done" /\ m_result' = "ErrDrop"
    /\ UNCHANGED <<dbs0, m_name, m_url, m_drop, m_create, m_exists, runVars, op, restoreVars, archiveVars, uploadVars, parseVars, configVars, downloadVars, schemaVars, renameVars, seqVars, toolVars>>

\* create_database_if_not_exists: CREATE DATABASE "<name>" [OWNER ...]
M_Create ==
    /\ m_pc = "create"
    /\ \E srv \in BOOLEAN :
         LET ok == srv /\ m_name \notin targetDbs IN
         /\ trace' = Append(trace, Event("create", m_name, cur, ok))
         /\ pgChildren' = pgChildren
         /\ IF ok
            THEN /\ targetDbs' = targetDbs \cup {m_name}
                 /\ m_pc' = "done" /\ m_result' = "OkTrue"
            ELSE /\ targetDbs' = targetDbs
                 /\ m_pc' = "done" /\ m_result' = "ErrCreate"
    /\ UNCHANGED <<dbs0, m_name, m_url, m_drop, m_create, m_exists, runVars, op, restoreVars, archiveVars, uploadVars, parseVars, configVars, downloadVars, schemaVars, renameVars, seqVars, toolVars>>

\* Option<Vec<String>>: None, or Some(list)
NoList == [some |-> FALSE, list |-> <<>>]
SomeList(l) == [some |-> TRUE, list |-> l]

\* no sync or backup run is in progress
RunIdleExceptTools ==
    /\ pc = "idle"
    /\ cfgList = NoList
    /\ cfgUrl = [srcValid |-> TRUE, tgtValid |-> TRUE, tgtPath |-> <<>>]
    /\ dbs = <<>>
    /\ cur = 0
    /\ dumped = <<>>
    /\ staging = FALSE
    /\ archive = FALSE
    /\ result = "none"

\* no psql / pg_restore call is in progress
ToolIdle ==
    /\ t_pc = "idle"
    /\ t_in = [exists |-> FALSE, empty |-> FALSE, ctx |-> "schema",
               src |-> [some |-> FALSE, name |-> <<>>], tgt |-> [some |-> FALSE, name |-> <<>>]]
    /\ t_temp = "none"
    /\ t_wrapped = FALSE
    /\ t_args = <<>>
    /\ t_pid = FALSE
    /\ t_timedOut = FALSE
    /\ t_out = [status |-> "none", stdout |-> <<>>, stderr |-> <<>>]
    /\ t_result = "none"

InitManage ==
    /\ targetDbs \in SUBSET ManageNames
    /\ dbs0 = targetDbs
    /\ trace = <<>>
    /\ pgChildren = <<>>
    /\ ConfigIdle
    /\ DownloadIdle
    /\ SchemaIdle
    /\ RestoreIdle
    /\ ArchiveIdle
    /\ UploadIdle
    /\ ParseIdle
    /\ SeqIdle
    /\ RenameIdle
    /\ m_pc = "start"
    /\ m_name \in ManageNames
    /\ m_url \in [valid : BOOLEAN, path : UrlPaths]
    /\ m_drop \in BOOLEAN
    /\ m_create \in BOOLEAN
    /\ m_exists = "unknown"
    /\ m_result = "none"
    /\ RunIdleExceptTools
    /\ tools = {}
    /\ op = "manage"
    /\ ToolIdle

NextManage ==
    \/ M_ParseUrl
    \/ M_Connect
    \/ M_Exists
    \/ M_Terminate
    \/ M_Drop
    \/ M_Create

SpecManage == InitManage /\ [][NextManage]_vars

---------------------------------------------------------------------------
(* Names used by the sync and backup runs *)

NameTemplate1 == <<"t","e","m","p","l","a","t","e","1">>
NameBad       == <<"a",";","b">>
NameTemplate  == <<"t","e","m","p","l","a","t","e">>

Digits == {"0","1","2","3","4","5","6","7","8","9"}
\* characters outside ASCII that Unicode classifies as letters
UnicodeLetters == {"é"}
Whitespace == {" ", "\t", "\n"}

Range(s) == {s[i] : i \in 1..Len(s)}

\* char::is_alphanumeric
is_alphanumeric(c) ==
    c \in Range(UpperCase) \cup Range(LowerCase) \cup Digits \cup UnicodeLetters

\* name.trim().is_empty()
TrimIsEmpty(name) == \A i \in 1..Len(name) : name[i] \in Whitespace

\* the test applied to each configured name in backup/db_dump.rs
InvalidName(name) ==
    \/ TrimIsEmpty(name)
    \/ \E i \in 1..Len(name) :
         ~is_alphanumeric(name[i]) /\ name[i] # "_" /\ name[i] # "-"

\* str::starts_with
starts_with(s, prefix) == IsPrefix(prefix, s)

\* str::contains on a Vec<String>
ListContains(l, name) == \E i \in 1..Len(l) : l[i] = name

\* longest database list the runs are checked with
MaxDbs == 2

RunNames == {NameApp, NamePostgres, NameTemplate1, NameBad}

RECURSIVE SeqsUpTo(_, _)
SeqsUpTo(S, n) ==
    IF n = 0 THEN {<<>>}
    ELSE LET shorter == SeqsUpTo(S, n - 1)
         IN shorter \cup {Append(l, x) : l \in {t \in shorter : Len(t) = n - 1}, x \in S}

ConfiguredLists == {NoList} \cup {SomeList(l) : l \in SeqsUpTo(RunNames, MaxDbs)}

\* outcome of launching a child process with std::process::Command::output
Outcomes == {"ok", "nonzero", "spawnfail"}

Binaries == {"pg_dump", "psql", "pg_restore"}

---------------------------------------------------------------------------
(* perform_sync_orchestration, sync/logic.rs *)

SyncDone(res) ==
    /\ pc' = "done"
    /\ result' = res

\* mutant: only pg_dump is resolved up front, psql and pg_restore when first used
S_ResolveOnlyPgDump ==
    /\ pc = "s_resolve"
    /\ IF "pg_dump" \notin tools THEN SyncDone("ErrToolMissing_pg_dump")
       ELSE pc' = "s_list" /\ result' = result
    /\ UNCHANGED <<targetDbs, trace, pgChildren, manageVars, tools, cfgList, cfgUrl, dbs, cur,
                   dumped, staging, archive, op, restoreVars, archiveVars, uploadVars, parseVars, configVars, downloadVars, schemaVars, renameVars, seqVars, toolVars>>

\* find_pg_dump_executable()?, find_psql_executable()?, find_pg_restore_executable()?
S_Resolve ==
    /\ pc = "s_resolve"
    /\ IF "pg_dump" \notin tools THEN SyncDone("ErrToolMissing_pg_dump")
       ELSE IF "psql" \notin tools THEN SyncDone("ErrToolMissing_psql")
       ELSE IF "pg_restore" \notin tools THEN SyncDone("ErrToolMissing_pg_restore")
       ELSE pc' = "s_list" /\ result' = result
    /\ UNCHANGED <<targetDbs, trace, pgChildren, manageVars, tools, cfgList, cfgUrl, dbs, cur,
                   dumped, staging, archive, op, restoreVars, archiveVars, uploadVars, parseVars, configVars, downloadVars, schemaVars, renameVars, seqVars, toolVars>>

\* the match on databases_to_sync and the two get_base_url_without_db calls
S_List ==
    /\ pc = "s_list"
    /\ IF ~cfgList.some \/ cfgList.list = <<>>
       THEN SyncDone("Ok") /\ UNCHANGED <<dbs, cur>>
       ELSE IF ~cfgUrl.srcValid \/ ~cfgUrl.tgtValid
            THEN SyncDone("ErrUrl") /\ dbs' = cfgList.list /\ cur' = cur
            ELSE /\ dbs' = cfgList.list
                 /\ cur' = 1
                 /\ pc' = "s_tempdir"
                 /\ result' = result
    /\ UNCHANGED <<targetDbs, trace, pgChildren, manageVars, tools, cfgList, cfgUrl,
                   dumped, staging, archive, op, restoreVars, archiveVars, uploadVars, parseVars, configVars, downloadVars, schemaVars, renameVars, seqVars, toolVars>>

\* TempFileBuilder::new().prefix(..).tempdir()?
S_TempDir ==
    /\ pc = "s_tempdir"
    /\ \E ok \in BOOLEAN :
         IF ok THEN pc' = "s_schema_dump" /\ result' = result
         ELSE SyncDone("ErrTempDir")
    /\ UNCHANGED <<targetDbs, trace, pgChildren, manageVars, tools, cfgList, cfgUrl, dbs, cur,
                   dumped, staging, archive, op, restoreVars, archiveVars, uploadVars, parseVars, configVars, downloadVars, schemaVars, renameVars, seqVars, toolVars>>

\* pg_dump --schema-only -f D_schema.sql <source>/D; error unless it exits with success
S_SchemaDump ==
    /\ pc = "s_schema_dump"
    /\ \E out \in Outcomes :
         /\ trace' = Append(trace, Event("schema_dump", dbs[cur], cur, out = "ok"))
         /\ pgChildren' = Append(pgChildren, Child("pg_dump", NoEnv))
         /\ IF out = "ok"
            THEN pc' = "s_data_dump" /\ result' = result
            ELSE SyncDone("ErrSchemaDump")
    /\ UNCHANGED <<targetDbs, manageVars, tools, cfgList, cfgUrl, dbs, cur,
                   dumped, staging, archive, op, restoreVars, archiveVars, uploadVars, parseVars, configVars, downloadVars, schemaVars, renameVars, seqVars, toolVars>>

\* mutant: the exit status of the data dump is not looked at
S_DataDumpIgnoresStatus ==
    /\ pc = "s_data_dump"
    /\ \E out \in Outcomes :
         /\ trace' = Append(trace, Event("data_dump", dbs[cur], cur, out = "ok"))
         /\ pgChildren' = Append(pgChildren, Child("pg_dump", NoEnv))
         /\ pc' = "s_manage" /\ result' = result
    /\ UNCHANGED <<targetDbs, manageVars, tools, cfgList, cfgUrl, dbs, cur,
                   dumped, staging, archive, op, restoreVars, archiveVars, uploadVars, parseVars, configVars, downloadVars, schemaVars, renameVars, seqVars, toolVars>>

\* pg_dump --data-only --format=custom -f D_data.sql <source>/D
S_DataDump ==
    /\ pc = "s_data_dump"
    /\ \E out \in Outcomes :
         /\ trace' = Append(trace, Event("data_dump", dbs[cur], cur, out = "ok"))
         /\ pgChildren' = Append(pgChildren, Child("pg_dump", NoEnv))
         /\ IF out = "ok"
            THEN pc' = "s_manage" /\ result' = result
            ELSE SyncDone("ErrDataDump")
    /\ UNCHANGED <<targetDbs, manageVars, tools, cfgList, cfgUrl, dbs, cur,
                   dumped, staging, archive, op, restoreVars, archiveVars, uploadVars, parseVars, configVars, downloadVars, schemaVars, renameVars, seqVars, toolVars>>

\* the call manage_target_database(&temp_restore_config_for_manage, db_name)
S_CallManage ==
    /\ pc = "s_manage"
    /\ pc' = "s_manage_wait"
    /\ m_pc' = "start"
    /\ m_name' = dbs[cur]
    /\ m_url' = [valid |-> cfgUrl.tgtValid, path |-> cfgUrl.tgtPath]
    /\ m_drop' = TRUE
    /\ m_create' = TRUE
    /\ m_exists' = "unknown"
    /\ m_result' = "none"
    /\ dbs0' = targetDbs
    /\ UNCHANGED <<targetDbs, trace, pgChildren, tools, cfgList, cfgUrl, dbs, cur,
                   dumped, staging, archive, result, op, restoreVars, archiveVars, uploadVars, parseVars, configVars, downloadVars, schemaVars, renameVars, seqVars, toolVars>>

\* .await.with_context(..)? on the result of manage_target_database
S_ManageReturn ==
    /\ pc = "s_manage_wait"
    /\ m_pc = "done"
    /\ m_pc' = "idle"
    /\ IF m_result \in {"OkTrue", "OkFalse"}
       THEN pc' = "s_schema_apply" /\ result' = result
       ELSE SyncDone("ErrManage")
    /\ UNCHANGED <<targetDbs, trace, pgChildren, dbs0, m_name, m_url, m_drop, m_create, m_exists,
                   m_result, tools, cfgList, cfgUrl, dbs, cur, dumped, staging, archive, op, restoreVars, archiveVars, uploadVars, parseVars, configVars, downloadVars, schemaVars, renameVars, seqVars, toolVars>>

\* psql -X -q -v ON_ERROR_STOP=1 -d <target>/D -f D_schema.sql
S_SchemaApply ==
    /\ pc = "s_schema_apply"
    /\ \E out \in Outcomes :
         /\ trace' = Append(trace, Event("schema_apply", dbs[cur], cur, out = "ok"))
         /\ pgChildren' = Append(pgChildren, Child("psql", NoEnv))
         /\ IF out = "ok"
            THEN pc' = "s_data_apply" /\ result' = result
            ELSE SyncDone("ErrSchemaApply")
    /\ UNCHANGED <<targetDbs, manageVars, tools, cfgList, cfgUrl, dbs, cur,
                   dumped, staging, archive, op, restoreVars, archiveVars, uploadVars, parseVars, configVars, downloadVars, schemaVars, renameVars, seqVars, toolVars>>

\* pg_restore --data-only ... --dbname <target>/D D_data.sql, then the next iteration
S_DataApply ==
    /\ pc = "s_data_apply"
    /\ \E out \in Outcomes :
         /\ trace' = Append(trace, Event("data_apply", dbs[cur], cur, out = "ok"))
         /\ pgChildren' = Append(pgChildren, Child("pg_restore", NoEnv))
         /\ IF out = "ok"
            THEN IF cur < Len(dbs)
                 THEN pc' = "s_tempdir" /\ cur' = cur + 1 /\ result' = result
                 ELSE SyncDone("Ok") /\ cur' = cur
            ELSE SyncDone("ErrDataApply") /\ cur' = cur
    /\ UNCHANGED <<targetDbs, manageVars, tools, cfgList, cfgUrl, dbs,
                   dumped, staging, archive, op, restoreVars, archiveVars, uploadVars, parseVars, configVars, downloadVars, schemaVars, renameVars, seqVars, toolVars>>

ManageIdle ==
    /\ dbs0 = targetDbs
    /\ m_pc = "idle"
    /\ m_name = <<>>
    /\ m_url = [valid |-> TRUE, path |-> <<>>]
    /\ m_drop = FALSE
    /\ m_create = FALSE
    /\ m_exists = "unknown"
    /\ m_result = "none"

\* database component of the target URL in the runs
RunUrlPaths == {<<>>, NamePostgres}

InitRunCommon ==
    /\ trace = <<>>
    /\ pgChildren = <<>>
    /\ ConfigIdle
    /\ DownloadIdle
    /\ SchemaIdle
    /\ RestoreIdle
    /\ ArchiveIdle
    /\ UploadIdle
    /\ ParseIdle
    /\ SeqIdle
    /\ RenameIdle
    /\ ManageIdle
    /\ ToolIdle
    /\ tools \in SUBSET Binaries
    /\ cfgList \in ConfiguredLists
    /\ dbs = <<>>
    /\ cur = 0
    /\ dumped = <<>>
    /\ staging = FALSE
    /\ archive = FALSE
    /\ result = "none"

InitSync ==
    /\ targetDbs \in SUBSET {NamePostgres, NameApp, NameBad}
    /\ InitRunCommon
    /\ cfgUrl \in [srcValid : BOOLEAN, tgtValid : BOOLEAN, tgtPath : RunUrlPaths]
    /\ pc = "s_resolve"
    /\ op = "sync"

NextSync ==
    \/ S_Resolve
    \/ S_List
    \/ S_TempDir
    \/ S_SchemaDump
    \/ S_DataDump
    \/ S_CallManage
    \/ NextManage
    \/ S_ManageReturn
    \/ S_SchemaApply
    \/ S_DataApply

SpecSync == InitSync /\ [][NextSync]_vars

---------------------------------------------------------------------------
(* run_backup_flow, backup/logic.rs, with dump_databases of backup/db_dump.rs *)

BackupDone(res) ==
    /\ pc' = "done"
    /\ result' = res

NoDuplicates(l) == \A i, j \in 1..Len(l) : l[i] = l[j] => i = j

\* what the catalog query of get_database_list can return
DiscoveredLists == {l \in SeqsUpTo(RunNames, MaxDbs) : NoDuplicates(l)}

\* mutant: postgres is skipped also when it is listed explicitly
SkippedAlwaysPostgres(db_name, configured) ==
    \/ InvalidName(db_name)
    \/ starts_with(db_name, NameTemplate)
    \/ db_name = NamePostgres

\* the two `continue` tests at the head of the dump loop
Skipped(db_name, configured) ==
    \/ InvalidName(db_name)
    \/ starts_with(db_name, NameTemplate)
    \/ (/\ db_name = NamePostgres
        /\ (~configured.some \/ ~ListContains(configured.list, db_name)))

\* check_db_connection(&source_url)
B_CheckConn ==
    /\ pc = "b_check"
    /\ \E ok \in BOOLEAN :
         IF ok THEN pc' = "b_mkdir" /\ result' = result
         ELSE BackupDone("ErrConnect")
    /\ UNCHANGED <<targetDbs, trace, pgChildren, manageVars, tools, cfgList, cfgUrl, dbs, cur,
                   dumped, staging, archive, op, restoreVars, archiveVars, uploadVars, parseVars, configVars, downloadVars, schemaVars, renameVars, seqVars, toolVars>>

\* create_backup_dir()?
B_CreateDir ==
    /\ pc = "b_mkdir"
    /\ \E ok \in BOOLEAN :
         IF ok THEN pc' = "b_resolve" /\ result' = result /\ staging' = TRUE
         ELSE BackupDone("ErrCreateDir") /\ staging' = staging
    /\ UNCHANGED <<targetDbs, trace, pgChildren, manageVars, tools, cfgList, cfgUrl, dbs, cur,
                   dumped, archive, op, restoreVars, archiveVars, uploadVars, parseVars, configVars, downloadVars, schemaVars, renameVars, seqVars, toolVars>>

\* dump_databases up to its first await: find pg_dump, base URL, and for an
\* explicit list the character check and the empty-list bail
B_Resolve ==
    /\ pc = "b_resolve"
    /\ IF "pg_dump" \notin tools
       THEN BackupDone("ErrToolMissing_pg_dump") /\ UNCHANGED <<dbs, cur>>
       ELSE IF ~cfgUrl.srcValid
       THEN BackupDone("ErrUrl") /\ UNCHANGED <<dbs, cur>>
       ELSE IF ~cfgList.some
       THEN pc' = "b_admin" /\ result' = result /\ UNCHANGED <<dbs, cur>>
       ELSE IF \E i \in 1..Len(cfgList.list) : InvalidName(cfgList.list[i])
       THEN BackupDone("ErrInvalidName") /\ UNCHANGED <<dbs, cur>>
       ELSE IF cfgList.list = <<>>
       THEN BackupDone("ErrNoDatabases") /\ dbs' = cfgList.list /\ cur' = cur
       ELSE /\ dbs' = cfgList.list
            /\ cur' = 1
            /\ pc' = "b_loop"
            /\ result' = result
    /\ UNCHANGED <<targetDbs, trace, pgChildren, manageVars, tools, cfgList, cfgUrl,
                   dumped, staging, archive, op, restoreVars, archiveVars, uploadVars, parseVars, configVars, downloadVars, schemaVars, renameVars, seqVars, toolVars>>

\* PgConnection::connect(<base>/postgres) when no list is configured
B_AdminConnect ==
    /\ pc = "b_admin"
    /\ \E ok \in BOOLEAN :
         IF ok THEN pc' = "b_discover" /\ result' = result
         ELSE BackupDone("ErrConnect")
    /\ UNCHANGED <<targetDbs, trace, pgChildren, manageVars, tools, cfgList, cfgUrl, dbs, cur,
                   dumped, staging, archive, op, restoreVars, archiveVars, uploadVars, parseVars, configVars, downloadVars, schemaVars, renameVars, seqVars, toolVars>>

\* get_database_list(conn).await?, then the empty-list bail
B_Discover ==
    /\ pc = "b_discover"
    /\ \/ BackupDone("ErrQuery") /\ UNCHANGED <<dbs, cur>>
       \/ \E l \in DiscoveredLists :
            /\ dbs' = l
            /\ IF l = <<>>
               THEN BackupDone("ErrNoDatabases") /\ cur' = cur
               ELSE pc' = "b_loop" /\ cur' = 1 /\ result' = result
    /\ UNCHANGED <<targetDbs, trace, pgChildren, manageVars, tools, cfgList, cfgUrl,
                   dumped, staging, archive, op, restoreVars, archiveVars, uploadVars, parseVars, configVars, downloadVars, schemaVars, renameVars, seqVars, toolVars>>

\* an iteration of the dump loop that ends in `continue`
B_Skip ==
    /\ pc = "b_loop"
    /\ cur <= Len(dbs)
    /\ Skipped(dbs[cur], cfgList)
    /\ cur' = cur + 1
    /\ UNCHANGED <<targetDbs, trace, pgChildren, manageVars, pc, tools, cfgList, cfgUrl, dbs,
                   dumped, staging, archive, result, op, restoreVars, archiveVars, uploadVars, parseVars, configVars, downloadVars, schemaVars, renameVars, seqVars, toolVars>>

\* mutant: the exit status of the schema dump is not looked at
B_SchemaDumpIgnoresStatus ==
    /\ pc = "b_loop"
    /\ cur <= Len(dbs)
    /\ ~Skipped(dbs[cur], cfgList)
    /\ \E out \in Outcomes :
         /\ trace' = Append(trace, Event("schema_dump", dbs[cur], cur, out = "ok"))
         /\ pgChildren' = Append(pgChildren, Child("pg_dump", NoEnv))
         /\ pc' = "b_data" /\ result' = result
    /\ UNCHANGED <<targetDbs, manageVars, tools, cfgList, cfgUrl, dbs, cur,
                   dumped, staging, archive, op, restoreVars, archiveVars, uploadVars, parseVars, configVars, downloadVars, schemaVars, renameVars, seqVars, toolVars>>

\* pg_dump --schema-only -f D_schema.sql <base>/D
B_SchemaDump ==
    /\ pc = "b_loop"
    /\ cur <= Len(dbs)
    /\ ~Skipped(dbs[cur], cfgList)
    /\ \E out \in Outcomes :
         /\ trace' = Append(trace, Event("schema_dump", dbs[cur], cur, out = "ok"))
         /\ pgChildren' = Append(pgChildren, Child("pg_dump", NoEnv))
         /\ IF out = "ok"
            THEN pc' = "b_data" /\ result' = result
            ELSE BackupDone("ErrSchemaDump")
    /\ UNCHANGED <<targetDbs, manageVars, tools, cfgList, cfgUrl, dbs, cur,
                   dumped, staging, archive, op, restoreVars, archiveVars, uploadVars, parseVars, configVars, downloadVars, schemaVars, renameVars, seqVars, toolVars>>

\* mutant: a failed data dump is logged and the loop goes on with the next database
B_DataDumpKeepsGoing ==
    /\ pc = "b_data"
    /\ \E out \in Outcomes :
         /\ trace' = Append(trace, Event("data_dump", dbs[cur], cur, out = "ok"))
         /\ pgChildren' = Append(pgChildren, Child("pg_dump", NoEnv))
         /\ dumped' = IF out = "ok" THEN Append(dumped, dbs[cur]) ELSE dumped
         /\ cur' = cur + 1
         /\ pc' = "b_loop" /\ result' = result
    /\ UNCHANGED <<targetDbs, manageVars, tools, cfgList, cfgUrl, dbs,
                   staging, archive, op, restoreVars, archiveVars, uploadVars, parseVars, configVars, downloadVars, schemaVars, renameVars, seqVars, toolVars>>

\* pg_dump --data-only --column-inserts -f D_data.sql <base>/D, then the push
B_DataDump ==
    /\ pc = "b_data"
    /\ \E out \in Outcomes :
         /\ trace' = Append(trace, Event("data_dump", dbs[cur], cur, out = "ok"))
         /\ pgChildren' = Append(pgChildren, Child("pg_dump", NoEnv))
         /\ IF out = "ok"
            THEN /\ dumped' = Append(dumped, dbs[cur])
                 /\ cur' = cur + 1
                 /\ pc' = "b_loop" /\ result' = result
            ELSE BackupDone("ErrDataDump") /\ UNCHANGED <<dumped, cur>>
    /\ UNCHANGED <<targetDbs, manageVars, tools, cfgList, cfgUrl, dbs,
                   staging, archive, op, restoreVars, archiveVars, uploadVars, parseVars, configVars, downloadVars, schemaVars, renameVars, seqVars, toolVars>>

\* Ok(successfully_dumped_dbs) and the `?` in run_backup_flow
B_Return ==
    /\ pc = "b_loop"
    /\ cur > Len(dbs)
    /\ pc' = "b_compress"
    /\ UNCHANGED <<targetDbs, trace, pgChildren, manageVars, tools, cfgList, cfgUrl, dbs, cur,
                   dumped, staging, archive, result, op, restoreVars, archiveVars, uploadVars, parseVars, configVars, downloadVars, schemaVars, renameVars, seqVars, toolVars>>

\* compress_backup(&backup_dir)?, then Ok(())
B_Compress ==
    /\ pc = "b_compress"
    /\ \E ok \in BOOLEAN :
         /\ trace' = Append(trace, Event("compress", <<>>, 0, ok))
         /\ pgChildren' = pgChildren
         /\ IF ok
            THEN BackupDone("Ok") /\ archive' = TRUE
            ELSE BackupDone("ErrCompress") /\ archive' = archive
    /\ UNCHANGED <<targetDbs, manageVars, tools, cfgList, cfgUrl, dbs, cur,
                   dumped, staging, op, restoreVars, archiveVars, uploadVars, parseVars, configVars, downloadVars, schemaVars, renameVars, seqVars, toolVars>>

InitBackup ==
    /\ targetDbs = {NamePostgres}
    /\ InitRunCommon
    /\ cfgUrl \in [srcValid : BOOLEAN, tgtValid : {TRUE}, tgtPath : {<<>>}]
    /\ pc = "b_check"
    /\ op = "backup"

NextBackup ==
    \/ B_CheckConn
    \/ B_CreateDir
    \/ B_Resolve
    \/ B_AdminConnect
    \/ B_Discover
    \/ B_Skip
    \/ B_SchemaDump
    \/ B_DataDump
    \/ B_Return
    \/ B_Compress

SpecBackup == InitBackup /\ [][NextBackup]_vars

\* the runs that process a list of databases: sync and backup
InitRun == InitSync \/ InitBackup

NextRun == NextSync \/ NextBackup

SpecRun == InitRun /\ [][NextRun]_vars

---------------------------------------------------------------------------
(* Text captured from a child process.  A stream is a sequence of characters; *)
(* the patterns are the string literals the triage code searches for.         *)

\* "unrecognized configuration parameter \"transaction_timeout\""
PatTransactionTimeout ==
    <<"u","n","r","e","c","o","g","n","i","z","e","d"," ","c","o","n","f",
      "i","g","u","r","a","t","i","o","n"," ","p","a","r","a","m","e","t",
      "e","r"," ","\"","t","r","a","n","s","a","c","t","i","o","n","_","t",
      "i","m","e","o","u","t","\"">>

\* "errors ignored on restore: 1"
PatErrorsIgnoredOne ==
    <<"e","r","r","o","r","s"," ","i","g","n","o","r","e","d"," ","o","n",
      " ","r","e","s","t","o","r","e",":"," ","1">>

\* "errors ignored on restore"
PatErrorsIgnored ==
    <<"e","r","r","o","r","s"," ","i","g","n","o","r","e","d"," ","o","n",
      " ","r","e","s","t","o","r","e">>

\* "connection"
PatConnection ==
    <<"c","o","n","n","e","c","t","i","o","n">>

\* "timeout"
PatTimeout ==
    <<"t","i","m","e","o","u","t">>

\* an ordinary error line
LineError ==
    <<"E","R","R","O","R",":"," ","r","e","l","a","t","i","o","n"," ","\"",
      "t","1","\""," ","d","o","e","s"," ","n","o","t"," ","e","x","i","s",
      "t">>

\* the warning of a newer dump on an older server
LineTransactionTimeout ==
    <<"p","g","_","r","e","s","t","o","r","e",":"," ","e","r","r","o","r",
      ":"," ","u","n","r","e","c","o","g","n","i","z","e","d"," ","c","o",
      "n","f","i","g","u","r","a","t","i","o","n"," ","p","a","r","a","m",
      "e","t","e","r"," ","\"","t","r","a","n","s","a","c","t","i","o","n",
      "_","t","i","m","e","o","u","t","\"">>

\* pg_restore summary, one error
LineIgnoredOne ==
    <<"p","g","_","r","e","s","t","o","r","e",":"," ","w","a","r","n","i",
      "n","g",":"," ","e","r","r","o","r","s"," ","i","g","n","o","r","e",
      "d"," ","o","n"," ","r","e","s","t","o","r","e",":"," ","1">>

\* pg_restore summary, two errors
LineIgnoredTwo ==
    <<"p","g","_","r","e","s","t","o","r","e",":"," ","w","a","r","n","i",
      "n","g",":"," ","e","r","r","o","r","s"," ","i","g","n","o","r","e",
      "d"," ","o","n"," ","r","e","s","t","o","r","e",":"," ","2">>

\* a connection failure
LineConnection ==
    <<"c","o","u","l","d"," ","n","o","t"," ","o","p","e","n"," ","c","o",
      "n","n","e","c","t","i","o","n"," ","t","o"," ","s","e","r","v","e",
      "r">>

\* a connect timeout
LineTimeout ==
    <<"t","i","m","e","o","u","t"," ","e","x","p","i","r","e","d">>

OutputLines == {LineError, LineTransactionTimeout, LineIgnoredOne, LineIgnoredTwo,
                LineConnection, LineTimeout}

\* most lines the child writes to stdout and stderr together
MaxLines == 2

RECURSIVE JoinLines(_)
JoinLines(ls) ==
    IF ls = <<>> THEN <<>> ELSE Head(ls) \o <<"\n">> \o JoinLines(Tail(ls))

\* the (stdout, stderr) pairs a child can leave behind
Outputs ==
    LET lists == SeqsUpTo(OutputLines, MaxLines)
    IN UNION {{[stdout |-> JoinLines(a), stderr |-> JoinLines(b)] :
                 b \in {l \in lists : Len(l) <= MaxLines - Len(a)}} : a \in lists}

\* str::contains
Contains(text, pat) ==
    \E i \in 1..(Len(text) - Len(pat) + 1) : SubSeq(text, i, i + Len(pat) - 1) = pat

\* ExitStatus: an exit code, or "signal" when code() is None
Statuses == {"0", "1", "9", "137", "143", "signal"}

\* ExitStatus::success
success(status) == status = "0"

\* Option<&str>
NoName == [some |-> FALSE, name |-> <<>>]
SomeName(n) == [some |-> TRUE, name |-> n]

NoOutput == [status |-> "none", stdout |-> <<>>, stderr |-> <<>>]

ToolEvent(kind) == Event(kind, <<>>, 0, TRUE)

---------------------------------------------------------------------------
(* execute_sql_file_with_psql, restore/db_restore.rs *)

ToolDone(res) ==
    /\ t_pc' = "done"
    /\ t_result' = res

\* the temporary file is deleted when its TempPath guard goes out of scope
TempDropped(temp) == IF temp = "exists" THEN "removed" ELSE temp

\* mutant: the rename block is entered whenever both names are given
RenameRequestedAlways(src, tgt) == src.some /\ tgt.some

\* `if let (Some(source), Some(target))` and `source != target`
RenameRequested(src, tgt) == src.some /\ tgt.some /\ src.name # tgt.name

\* mutant: the tolerance of the pg_restore path applied to psql
PsqlTriageTolerant(status, stdout, stderr) ==
    IF success(status) THEN "Ok"
    ELSE IF stdout = <<>> /\ stderr = <<>> THEN "Ok"
    ELSE IF Contains(stderr, PatConnection) /\ Contains(stderr, PatTimeout)
    THEN "ErrConnTimeout"
    ELSE IF status \in {"137", "143", "9"} THEN "ErrKilled"
    ELSE "ErrFailed"

\* what execute_sql_file_with_psql returns for a child that ran to completion
PsqlTriage(status, stdout, stderr) ==
    IF success(status) THEN "Ok"
    ELSE IF Contains(stderr, PatConnection) /\ Contains(stderr, PatTimeout)
    THEN "ErrConnTimeout"
    ELSE IF status \in {"137", "143", "9"} THEN "ErrKilled"
    ELSE "ErrFailed"

\* the tables the DO block of the data wrapping truncates: the rows of
\* pg_tables WHERE schemaname = 'public' AND tablename != 'schema_migrations'
WrapperTruncates(table) == table # "schema_migrations"

\* the arguments of the psql command: the file is the temporary copy after a rename
PsqlArgs(renamed) ==
    <<"-X", "-q", "-v", "ON_ERROR_STOP=1", "-d", "target_db_url", "-f",
      IF renamed THEN "temp_path" ELSE "sql_file_path", "-1">>

\* from the entry of the function to the spawn of psql
P_Start ==
    /\ op = "psql"
    /\ t_pc = "start"
    /\ IF ~t_in.exists
       THEN ToolDone("ErrFileMissing") /\ UNCHANGED <<trace, pgChildren, t_temp, t_wrapped, t_args, t_pid>>
       ELSE IF "psql" \notin tools
       THEN ToolDone("ErrToolMissing_psql") /\ UNCHANGED <<trace, pgChildren, t_temp, t_wrapped, t_args, t_pid>>
       ELSE \E io \in BOOLEAN, spawned \in BOOLEAN :
              LET rename == RenameRequested(t_in.src, t_in.tgt)
                  wrap == rename /\ t_in.ctx = "data"
              IN IF rename /\ ~io
                 THEN ToolDone("ErrIo") /\ UNCHANGED <<trace, pgChildren, t_temp, t_wrapped, t_args, t_pid>>
                 ELSE IF rename /\ t_in.empty /\ ~wrap
                 THEN /\ ToolDone("ErrEmptyTemp")
                      /\ t_temp' = "removed"
                      /\ UNCHANGED <<trace, pgChildren, t_wrapped, t_args, t_pid>>
                 ELSE IF ~spawned
                 THEN /\ ToolDone("ErrSpawn")
                      /\ t_temp' = IF rename THEN "removed" ELSE t_temp
                      /\ t_wrapped' = wrap
                      /\ t_args' = PsqlArgs(rename)
                      /\ UNCHANGED <<trace, pgChildren, t_pid>>
                 ELSE /\ t_pc' = "p_wait"
                      /\ t_result' = t_result
                      /\ t_temp' = IF rename THEN "exists" ELSE t_temp
                      /\ t_wrapped' = wrap
                      /\ t_args' = PsqlArgs(rename)
                      /\ t_pid' = TRUE
                      /\ trace' = Append(trace, ToolEvent("spawn_psql"))
                      /\ pgChildren' = Append(pgChildren, Child("psql", ConnectTimeoutEnv))
    /\ UNCHANGED <<targetDbs, manageVars, runVars, op, restoreVars, archiveVars, uploadVars, parseVars, configVars, downloadVars, schemaVars, renameVars, seqVars, t_in, t_timedOut, t_out>>

\* timeout(timeout_duration, child.wait_with_output()).await and the triage
P_Wait ==
    /\ op = "psql"
    /\ t_pc = "p_wait"
    /\ \/ /\ t_timedOut' = TRUE
          /\ t_pc' = "p_kill_pid"
          /\ UNCHANGED <<t_out, t_result, t_temp>>
       \/ /\ t_pc' = "p_pkill_err"
          /\ UNCHANGED <<t_out, t_result, t_temp, t_timedOut>>
       \/ \E st \in Statuses, o \in Outputs :
            /\ t_out' = [status |-> st, stdout |-> o.stdout, stderr |-> o.stderr]
            /\ ToolDone(PsqlTriage(st, o.stdout, o.stderr))
            /\ t_temp' = TempDropped(t_temp)
            /\ t_timedOut' = t_timedOut
    /\ UNCHANGED <<targetDbs, trace, pgChildren, manageVars, runVars, op, restoreVars, archiveVars, uploadVars, parseVars, configVars, downloadVars, schemaVars, renameVars, seqVars, t_in, t_args, t_wrapped, t_pid>>

\* kill -9 <pid> after the timeout
P_KillPid ==
    /\ op = "psql"
    /\ t_pc = "p_kill_pid"
    /\ trace' = IF t_pid THEN Append(trace, ToolEvent("kill_pid")) ELSE trace
    /\ pgChildren' = pgChildren
    /\ t_pc' = "p_pkill"
    /\ UNCHANGED <<targetDbs, manageVars, runVars, op, restoreVars, archiveVars, uploadVars, parseVars, configVars, downloadVars, schemaVars, renameVars, seqVars, t_in, t_args, t_temp, t_wrapped, t_pid,
                   t_timedOut, t_out, t_result>>

\* pkill -9 -f psql.*<url> after the timeout, then the timed-out error
P_Pkill ==
    /\ op = "psql"
    /\ t_pc = "p_pkill"
    /\ trace' = Append(trace, ToolEvent("pkill"))
    /\ pgChildren' = pgChildren
    /\ ToolDone("ErrTimeout")
    /\ t_temp' = TempDropped(t_temp)
    /\ UNCHANGED <<targetDbs, manageVars, runVars, op, restoreVars, archiveVars, uploadVars, parseVars, configVars, downloadVars, schemaVars, renameVars, seqVars, t_in, t_args, t_wrapped, t_pid,
                   t_timedOut, t_out>>

\* pkill after wait_with_output itself failed, then that error
P_PkillAfterError ==
    /\ op = "psql"
    /\ t_pc = "p_pkill_err"
    /\ trace' = Append(trace, ToolEvent("pkill"))
    /\ pgChildren' = pgChildren
    /\ ToolDone("ErrWait")
    /\ t_temp' = TempDropped(t_temp)
    /\ UNCHANGED <<targetDbs, manageVars, runVars, op, restoreVars, archiveVars, uploadVars, parseVars, configVars, downloadVars, schemaVars, renameVars, seqVars, t_in, t_args, t_wrapped, t_pid,
                   t_timedOut, t_out>>

---------------------------------------------------------------------------
(* restore_database_from_dump, restore/db_restore.rs *)

\* what restore_database_from_dump returns for a child that ran to completion
RestoreTriage(status, stdout, stderr) ==
    IF success(status) THEN "Ok"
    ELSE IF stdout = <<>> /\ stderr = <<>> THEN "Ok"
    ELSE IF \/ Contains(stderr, PatTransactionTimeout)
            \/ Contains(stderr, PatErrorsIgnoredOne)
            \/ Contains(stdout, PatTransactionTimeout)
            \/ Contains(stdout, PatErrorsIgnored)
    THEN "Ok"
    ELSE IF Contains(stderr, PatConnection) /\ Contains(stderr, PatTimeout)
    THEN "ErrConnTimeout"
    ELSE IF status \in {"137", "143", "9"} THEN "ErrKilled"
    ELSE "ErrFailed"

\* from the entry of the function to the spawn of pg_restore
R_Start ==
    /\ op = "pg_restore"
    /\ t_pc = "start"
    /\ IF ~t_in.exists
       THEN ToolDone("ErrFileMissing") /\ UNCHANGED <<trace, pgChildren, t_pid>>
       ELSE IF "pg_restore" \notin tools
       THEN ToolDone("ErrToolMissing_pg_restore") /\ UNCHANGED <<trace, pgChildren, t_pid>>
       ELSE \E spawned \in BOOLEAN :
              IF ~spawned
              THEN ToolDone("ErrSpawn") /\ UNCHANGED <<trace, pgChildren, t_pid>>
              ELSE /\ t_pc' = "r_wait"
                   /\ t_result' = t_result
                   /\ t_pid' = TRUE
                   /\ trace' = Append(trace, ToolEvent("spawn_pg_restore"))
                   /\ pgChildren' = Append(pgChildren, Child("pg_restore", ConnectTimeoutEnv))
    /\ UNCHANGED <<targetDbs, manageVars, runVars, op, restoreVars, archiveVars, uploadVars, parseVars, configVars, downloadVars, schemaVars, renameVars, seqVars, t_in, t_args, t_temp, t_wrapped,
                   t_timedOut, t_out>>

\* mutant: a child that finishes while it is being killed counts as completed
R_WaitForgetsTimeout ==
    /\ op = "pg_restore"
    /\ t_pc = "r_wait"
    /\ \/ /\ t_timedOut' = TRUE
          /\ ToolDone("Ok")
          /\ UNCHANGED <<t_out>>
       \/ /\ t_pc' = "r_pkill_err"
          /\ UNCHANGED <<t_out, t_result, t_timedOut>>
       \/ \E st \in Statuses, o \in Outputs :
            /\ t_out' = [status |-> st, stdout |-> o.stdout, stderr |-> o.stderr]
            /\ ToolDone(RestoreTriage(st, o.stdout, o.stderr))
            /\ t_timedOut' = t_timedOut
    /\ UNCHANGED <<targetDbs, trace, pgChildren, manageVars, runVars, op, restoreVars, archiveVars, uploadVars, parseVars, configVars, downloadVars, schemaVars, renameVars, seqVars, t_in, t_args, t_temp, t_wrapped, t_pid>>

\* timeout(timeout_duration, child.wait_with_output()).await and the triage
R_Wait ==
    /\ op = "pg_restore"
    /\ t_pc = "r_wait"
    /\ \/ /\ t_timedOut' = TRUE
          /\ t_pc' = "r_kill_pid"
          /\ UNCHANGED <<t_out, t_result>>
       \/ /\ t_pc' = "r_pkill_err"
          /\ UNCHANGED <<t_out, t_result, t_timedOut>>
       \/ \E st \in Statuses, o \in Outputs :
            /\ t_out' = [status |-> st, stdout |-> o.stdout, stderr |-> o.stderr]
            /\ ToolDone(RestoreTriage(st, o.stdout, o.stderr))
            /\ t_timedOut' = t_timedOut
    /\ UNCHANGED <<targetDbs, trace, pgChildren, manageVars, runVars, op, restoreVars, archiveVars, uploadVars, parseVars, configVars, downloadVars, schemaVars, renameVars, seqVars, t_in, t_args, t_temp, t_wrapped, t_pid>>

\* kill -9 <pid> after the timeout
R_KillPid ==
    /\ op = "pg_restore"
    /\ t_pc = "r_kill_pid"
    /\ trace' = IF t_pid THEN Append(trace, ToolEvent("kill_pid")) ELSE trace
    /\ pgChildren' = pgChildren
    /\ t_pc' = "r_pkill"
    /\ UNCHANGED <<targetDbs, manageVars, runVars, op, restoreVars, archiveVars, uploadVars, parseVars, configVars, downloadVars, schemaVars, renameVars, seqVars, t_in, t_args, t_temp, t_wrapped, t_pid,
                   t_timedOut, t_out, t_result>>

\* pkill -9 -f pg_restore.*<url> after the timeout, then the timed-out error
R_Pkill ==
    /\ op = "pg_restore"
    /\ t_pc = "r_pkill"
    /\ trace' = Append(trace, ToolEvent("pkill"))
    /\ pgChildren' = pgChildren
    /\ ToolDone("ErrTimeout")
    /\ UNCHANGED <<targetDbs, manageVars, runVars, op, restoreVars, archiveVars, uploadVars, parseVars, configVars, downloadVars, schemaVars, renameVars, seqVars, t_in, t_args, t_temp, t_wrapped, t_pid,
                   t_timedOut, t_out>>

\* pkill after wait_with_output itself failed, then that error
R_PkillAfterError ==
    /\ op = "pg_restore"
    /\ t_pc = "r_pkill_err"
    /\ trace' = Append(trace, ToolEvent("pkill"))
    /\ pgChildren' = pgChildren
    /\ ToolDone("ErrWait")
    /\ UNCHANGED <<targetDbs, manageVars, runVars, op, restoreVars, archiveVars, uploadVars, parseVars, configVars, downloadVars, schemaVars, renameVars, seqVars, t_in, t_args, t_temp, t_wrapped, t_pid,
                   t_timedOut, t_out>>

\* (source_db_name, target_db_name) pairs the psql path is called with
NamePairs ==
    {<<NoName, NoName>>, <<SomeName(NameApp), NoName>>,
     <<SomeName(NameApp), SomeName(NameApp)>>, <<SomeName(NameApp), SomeName(NameShop)>>}

InitTool ==
    /\ targetDbs = {NamePostgres}
    /\ trace = <<>>
    /\ pgChildren = <<>>
    /\ ConfigIdle
    /\ DownloadIdle
    /\ SchemaIdle
    /\ RestoreIdle
    /\ ArchiveIdle
    /\ UploadIdle
    /\ ParseIdle
    /\ SeqIdle
    /\ RenameIdle
    /\ ManageIdle
    /\ RunIdleExceptTools
    /\ tools \in SUBSET {"psql", "pg_restore"}
    /\ op \in {"psql", "pg_restore"}
    /\ t_pc = "start"
    /\ \E ex \in BOOLEAN, em \in BOOLEAN, ctx \in {"schema", "data"}, np \in NamePairs :
         /\ op = "pg_restore" => (ctx = "data" /\ ~em /\ np = <<NoName, NoName>>)
         /\ t_in = [exists |-> ex, empty |-> em, ctx |-> ctx, src |-> np[1], tgt |-> np[2]]
    /\ t_temp = "none"
    /\ t_wrapped = FALSE
    /\ t_args = <<>>
    /\ t_pid = FALSE
    /\ t_timedOut = FALSE
    /\ t_out = NoOutput
    /\ t_result = "none"

NextTool ==
    \/ P_Start
    \/ P_Wait
    \/ P_KillPid
    \/ P_Pkill
    \/ P_PkillAfterError
    \/ R_Start
    \/ R_Wait
    \/ R_KillPid
    \/ R_Pkill
    \/ R_PkillAfterError

SpecTool == InitTool /\ [][NextTool]_vars

---------------------------------------------------------------------------
(* The restored database as the sequence repair sees it *)

\* largest id value a table of the modelled database holds
MaxId == 2

\* the public tables of the modelled database, in `ORDER BY tab.relname` order
TableOrder == <<"otp", "users">>
SeqTables == Range(TableOrder)

\* SQL type of the id column: INT4 or INT8
ColumnTypes == {"int4", "int8"}

\* the sequence <table>_id_seq: missing, existing without an owner, or owned by id
SeqKinds == {"none", "plain", "owned"}

NoTable ==
    [exists |-> FALSE, ctype |-> "int4", max |-> 0, seq |-> "none",
     next |-> 0, called |-> FALSE]

\* an existing table after the data apply: ids were inserted with explicit
\* values, the sequence (if any) still stands at its start value
TableStates ==
    {NoTable} \cup
    {[exists |-> TRUE, ctype |-> c, max |-> m, seq |-> s,
      next |-> IF s = "none" THEN 0 ELSE 1, called |-> FALSE] :
        c \in ColumnTypes, m \in 0..MaxId, s \in SeqKinds}

Databases == [SeqTables -> TableStates]

TableExists(db, t) == t \in DOMAIN db /\ db[t].exists

SequenceExists(db, t) == TableExists(db, t) /\ db[t].seq # "none"

\* the rows of the pg_class / pg_depend (deptype 'a') / pg_attribute join
OwnedSequences(db) ==
    SelectSeq(TableOrder, LAMBDA t : db[t].exists /\ db[t].seq = "owned")

\* the row of SELECT COALESCE(MAX(id), 0) AS max_val: the value with its SQL type
MaxValueRow(db, t) == [ctype |-> db[t].ctype, val |-> db[t].max]

\* row.try_get::<i64, _>("max_val"): decodes an INT8 column only
try_get_i64(row) == [ok |-> row.ctype = "int8", val |-> row.val]

\* row.try_get::<i32, _>("max_val"): decodes an INT4 column only
try_get_i32(row) == [ok |-> row.ctype = "int4", val |-> row.val]

\* SELECT setval('<t>_id_seq', value, is_called)
setval(db, t, value, is_called) ==
    [db EXCEPT ![t].next = value, ![t].called = is_called]

\* what the next nextval('<t>_id_seq') returns
nextval(db, t) == IF db[t].called THEN db[t].next + 1 ELSE db[t].next

SeqEvent(kind, t) == Event(kind, <<t>>, 0, TRUE)

SeqDone(res) ==
    /\ q_pc' = "done"
    /\ q_result' = res

---------------------------------------------------------------------------
(* reset_all_sequences, utils/sequence_reset.rs *)

\* common_tables of reset_common_system_sequences in utils/sequence_reset.rs
CommonTables ==
    <<"migrations", "schema_migrations", "users", "permissions", "groups", "otp">>

\* max_val as parsed in sequence_reset.rs: i64 first, then i32
ParseMaxVal(row) ==
    IF try_get_i64(row).ok THEN [ok |-> TRUE, val |-> try_get_i64(row).val]
    ELSE IF try_get_i32(row).ok THEN [ok |-> TRUE, val |-> try_get_i32(row).val]
    ELSE [ok |-> FALSE, val |-> 0]

\* the catalog enumeration and the early return on an empty result
Q_Enumerate ==
    /\ op = "reset"
    /\ q_pc = "q_enum"
    /\ \E ok \in BOOLEAN :
         IF ~ok
         THEN SeqDone("ErrFetch") /\ UNCHANGED <<trace, pgChildren, q_seqs, q_i>>
         ELSE /\ trace' = Append(trace, SeqEvent("enumerate", "pg_depend"))
              /\ pgChildren' = pgChildren
              /\ q_seqs' = OwnedSequences(q_db)
              /\ IF q_seqs' = <<>>
                 THEN SeqDone("Ok") /\ q_i' = q_i
                 ELSE q_pc' = "q_loop" /\ q_i' = 1 /\ q_result' = q_result
    /\ UNCHANGED <<targetDbs, manageVars, runVars, op, restoreVars, archiveVars, uploadVars, parseVars, configVars, downloadVars, schemaVars, renameVars, q_db, toolVars>>

\* Q_ResetOne with a failed MAX query or setval propagated as an error
Q_ResetOneFailsFast ==
    /\ op = "reset"
    /\ q_pc = "q_loop"
    /\ LET t == q_seqs[q_i]
           parsed == ParseMaxVal(MaxValueRow(q_db, t))
       IN \E maxOk \in BOOLEAN, setOk \in BOOLEAN :
            IF maxOk /\ parsed.ok /\ setOk
            THEN /\ q_db' = setval(q_db, t, parsed.val + 1, FALSE)
                 /\ trace' = Append(trace, SeqEvent("setval", t))
                 /\ pgChildren' = pgChildren
                 /\ IF q_i < Len(q_seqs)
                    THEN q_i' = q_i + 1 /\ UNCHANGED <<q_pc, q_result>>
                    ELSE q_i' = 1 /\ q_pc' = "q_common" /\ q_result' = q_result
            ELSE /\ trace' = Append(trace, SeqEvent("reset_failed", t))
                 /\ SeqDone("ErrReset")
                 /\ UNCHANGED <<q_db, pgChildren, q_i>>
    /\ UNCHANGED <<targetDbs, manageVars, runVars, op, restoreVars, archiveVars, uploadVars, parseVars, configVars, downloadVars, schemaVars, renameVars, q_seqs, toolVars>>

\* one iteration of `for (sequence_name, table_name, column_name) in sequences`;
\* a failure is printed and counted in error_count, the loop goes on
Q_ResetOne ==
    /\ op = "reset"
    /\ q_pc = "q_loop"
    /\ LET t == q_seqs[q_i]
           parsed == ParseMaxVal(MaxValueRow(q_db, t))
       IN \E maxOk \in BOOLEAN, setOk \in BOOLEAN :
            IF maxOk /\ parsed.ok /\ setOk
            THEN /\ q_db' = setval(q_db, t, parsed.val + 1, FALSE)
                 /\ trace' = Append(trace, SeqEvent("setval", t))
                 /\ pgChildren' = pgChildren
            ELSE /\ trace' = Append(trace, SeqEvent("reset_failed", t))
                 /\ UNCHANGED <<q_db, pgChildren>>
    /\ IF q_i < Len(q_seqs)
       THEN q_i' = q_i + 1 /\ q_pc' = q_pc
       ELSE q_i' = 1 /\ q_pc' = "q_common"
    /\ UNCHANGED <<targetDbs, manageVars, runVars, op, restoreVars, archiveVars, uploadVars, parseVars, configVars, downloadVars, schemaVars, renameVars, q_seqs, q_result, toolVars>>

\* one iteration of reset_common_system_sequences; Ok(()) after the last one
Q_Common ==
    /\ op = "reset"
    /\ q_pc = "q_common"
    /\ LET t == CommonTables[q_i]
       IN IF ~TableExists(q_db, t)
          THEN UNCHANGED <<q_db, trace, pgChildren>>
          ELSE LET parsed == ParseMaxVal(MaxValueRow(q_db, t))
               IN IF parsed.ok /\ SequenceExists(q_db, t)
                  THEN /\ q_db' = setval(q_db, t, parsed.val + 1, FALSE)
                       /\ trace' = Append(trace, SeqEvent("setval", t))
                       /\ pgChildren' = pgChildren
                  ELSE UNCHANGED <<q_db, trace, pgChildren>>
    /\ IF q_i < Len(CommonTables)
       THEN q_i' = q_i + 1 /\ UNCHANGED <<q_pc, q_result>>
       ELSE SeqDone("Ok") /\ q_i' = q_i
    /\ UNCHANGED <<targetDbs, manageVars, runVars, op, restoreVars, archiveVars, uploadVars, parseVars, configVars, downloadVars, schemaVars, renameVars, q_seqs, toolVars>>

\* reset_sequences_with_timeout: the 300 second timer expires while
\* reset_all_sequences is still awaiting a query, and the pass is abandoned
Q_Timeout ==
    /\ op = "reset"
    /\ q_pc \in {"q_enum", "q_loop", "q_common"}
    /\ SeqDone("ErrTimeout")
    /\ UNCHANGED <<targetDbs, trace, pgChildren, manageVars, runVars, op, restoreVars, archiveVars, uploadVars, parseVars, configVars, downloadVars, schemaVars, renameVars, q_db, q_seqs, q_i, toolVars>>

---------------------------------------------------------------------------
(* verify_restore and its reset_sequences, restore/verification.rs *)

\* common_tables probed by verify_restore
ProbedTables == <<"migrations", "schema_migrations", "users", "permissions">>

\* common_tables of reset_common_system_sequences in restore/verification.rs
VerifyCommonTables ==
    <<"migrations", "schema_migrations", "users", "permissions", "groups">>

\* row.try_get("max_val").unwrap_or(0) with max_val: i64
MaxValOrZero(row) == IF try_get_i64(row).ok THEN try_get_i64(row).val ELSE 0

\* SELECT tablename FROM pg_catalog.pg_tables WHERE schemaname = 'public'
V_ListTables ==
    /\ op = "verify"
    /\ q_pc = "v_tables"
    /\ \E ok \in BOOLEAN :
         IF ~ok
         THEN SeqDone("ErrQuery") /\ UNCHANGED <<trace, pgChildren, q_i>>
         ELSE /\ trace' = Append(trace, SeqEvent("list_tables", "pg_tables"))
              /\ pgChildren' = pgChildren
              /\ q_pc' = "v_probe"
              /\ q_i' = 1
              /\ q_result' = q_result
    /\ UNCHANGED <<targetDbs, manageVars, runVars, op, restoreVars, archiveVars, uploadVars, parseVars, configVars, downloadVars, schemaVars, renameVars, q_db, q_seqs, toolVars>>

\* one iteration of the `SELECT EXISTS (... information_schema.tables ...)` loop
V_Probe ==
    /\ op = "verify"
    /\ q_pc = "v_probe"
    /\ trace' = Append(trace, SeqEvent("probe", ProbedTables[q_i]))
    /\ pgChildren' = pgChildren
    /\ IF q_i < Len(ProbedTables)
       THEN q_i' = q_i + 1 /\ q_pc' = q_pc
       ELSE q_i' = 0 /\ q_pc' = "v_enum"
    /\ UNCHANGED <<targetDbs, manageVars, runVars, op, restoreVars, archiveVars, uploadVars, parseVars, configVars, downloadVars, schemaVars, renameVars, q_db, q_seqs, q_result, toolVars>>

\* reset_sequences: the catalog enumeration and the early return on an empty result
V_Enumerate ==
    /\ op = "verify"
    /\ q_pc = "v_enum"
    /\ \E ok \in BOOLEAN :
         IF ~ok
         THEN SeqDone("ErrFetch") /\ UNCHANGED <<trace, pgChildren, q_seqs, q_i>>
         ELSE /\ trace' = Append(trace, SeqEvent("enumerate", "pg_depend"))
              /\ pgChildren' = pgChildren
              /\ q_seqs' = OwnedSequences(q_db)
              /\ IF q_seqs' = <<>>
                 THEN SeqDone("Ok") /\ q_i' = q_i
                 ELSE q_pc' = "v_loop" /\ q_i' = 1 /\ q_result' = q_result
    /\ UNCHANGED <<targetDbs, manageVars, runVars, op, restoreVars, archiveVars, uploadVars, parseVars, configVars, downloadVars, schemaVars, renameVars, q_db, toolVars>>

\* one iteration of `for (sequence_name, _, table_name, column_name) in sequences`
V_ResetOne ==
    /\ op = "verify"
    /\ q_pc = "v_loop"
    /\ LET t == q_seqs[q_i]
           max_val == MaxValOrZero(MaxValueRow(q_db, t))
       IN \E maxOk \in BOOLEAN, setOk \in BOOLEAN :
            IF maxOk /\ setOk
            THEN /\ q_db' = setval(q_db, t, max_val + 1, FALSE)
                 /\ trace' = Append(trace, SeqEvent("setval", t))
                 /\ pgChildren' = pgChildren
            ELSE UNCHANGED <<q_db, trace, pgChildren>>
    /\ IF q_i < Len(q_seqs)
       THEN q_i' = q_i + 1 /\ q_pc' = q_pc
       ELSE q_i' = 1 /\ q_pc' = "v_common"
    /\ UNCHANGED <<targetDbs, manageVars, runVars, op, restoreVars, archiveVars, uploadVars, parseVars, configVars, downloadVars, schemaVars, renameVars, q_seqs, q_result, toolVars>>

\* one iteration of reset_common_system_sequences; Ok(()) after the last one
V_Common ==
    /\ op = "verify"
    /\ q_pc = "v_common"
    /\ LET t == VerifyCommonTables[q_i]
       IN IF TableExists(q_db, t) /\ SequenceExists(q_db, t)
          THEN /\ q_db' = setval(q_db, t, MaxValOrZero(MaxValueRow(q_db, t)) + 1, FALSE)
               /\ trace' = Append(trace, SeqEvent("setval", t))
               /\ pgChildren' = pgChildren
          ELSE UNCHANGED <<q_db, trace, pgChildren>>
    /\ IF q_i < Len(VerifyCommonTables)
       THEN q_i' = q_i + 1 /\ UNCHANGED <<q_pc, q_result>>
       ELSE SeqDone("Ok") /\ q_i' = q_i
    /\ UNCHANGED <<targetDbs, manageVars, runVars, op, restoreVars, archiveVars, uploadVars, parseVars, configVars, downloadVars, schemaVars, renameVars, q_seqs, toolVars>>

InitSeq ==
    /\ targetDbs = {NamePostgres}
    /\ trace = <<>>
    /\ pgChildren = <<>>
    /\ ConfigIdle
    /\ DownloadIdle
    /\ SchemaIdle
    /\ RestoreIdle
    /\ ArchiveIdle
    /\ UploadIdle
    /\ ParseIdle
    /\ ManageIdle
    /\ RunIdleExceptTools
    /\ tools = {}
    /\ ToolIdle
    /\ RenameIdle
    /\ op \in {"verify", "reset"}
    /\ q_pc = IF op = "verify" THEN "v_tables" ELSE "q_enum"
    /\ q_db \in Databases
    /\ q_seqs = <<>>
    /\ q_i = 0
    /\ q_result = "none"

NextSeq ==
    \/ V_ListTables
    \/ V_Probe
    \/ V_Enumerate
    \/ V_ResetOne
    \/ V_Common
    \/ Q_Enumerate
    \/ Q_ResetOne
    \/ Q_Common
    \/ Q_Timeout

SpecSeq == InitSeq /\ [][NextSeq]_vars

---------------------------------------------------------------------------
(* replace_database_references, restore/db_restore.rs *)

NameAppDev == <<"a","p","p","_","d","e","v">>

\* positions of the text at which pat matches
MatchPositions(text, pat) ==
    {i \in 1..(Len(text) - Len(pat) + 1) : SubSeq(text, i, i + Len(pat) - 1) = pat}

\* str::replace: every non-overlapping match of pat, from left to right
RECURSIVE str_replace(_, _, _)
str_replace(text, pat, to) ==
    IF pat = <<>> \/ MatchPositions(text, pat) = {} THEN text
    ELSE LET i == CHOOSE m \in MatchPositions(text, pat) :
                      \A n \in MatchPositions(text, pat) : m <= n
         IN SubSeq(text, 1, i - 1) \o to
                \o str_replace(SubSeq(text, i + Len(pat), Len(text)), pat, to)

\* the `patterns` vector built from source_db
RenamePatterns(s) ==
    << <<" ">> \o s \o <<" ">>,
       <<"\"">> \o s \o <<"\"", " ">>,
       <<" ">> \o s \o <<".">>,
       <<"\"">> \o s \o <<"\"", ".">>,
       <<" ">> \o s \o <<";">>,
       <<"\"">> \o s \o <<"\"", ";">>,
       <<"\\", "c", " ">> \o s,
       <<"\\", "c", " ", "\"">> \o s \o <<"\"">> >>

\* the `for pattern in patterns` loop from the k-th pattern on
RECURSIVE ApplyPatterns(_, _, _, _)
ApplyPatterns(text, k, s, t) ==
    IF k > Len(RenamePatterns(s)) THEN text
    ELSE LET pattern == RenamePatterns(s)[k]
             replacement == str_replace(pattern, s, t)
         IN ApplyPatterns(str_replace(text, pattern, replacement), k + 1, s, t)

replace_database_references(sql_content, source_db, target_db) ==
    IF source_db = target_db THEN sql_content
    ELSE ApplyPatterns(sql_content, 1, source_db, target_db)

\* pieces of SQL text the function is applied to, written for the source name app
\* `CREATE DATABASE S;`, as in the test of the source
SqlCreateDatabase ==
    <<"C","R","E","A","T","E"," ","D","A","T","A","B","A","S","E"," ","a",
      "p","p",";","\n">>

\* `\c S` at the end of a line
SqlConnect ==
    <<"\\","c"," ","a","p","p","\n">>

\* a schema qualifier `S.` and a longer token that begins with S
SqlQualified ==
    <<"A","L","T","E","R"," ","T","A","B","L","E"," ","a","p","p",".","u",
      "s","e","r","s"," ","O","W","N","E","R"," ","T","O"," ","a","p","p",
      "_","a","d","m","i","n",";","\n">>

\* `\c` followed by a longer token that begins with S
SqlConnectLonger ==
    <<"\\","c"," ","a","p","p","_","a","d","m","i","n","\n">>

\* S as a word inside a string literal
SqlLiteral ==
    <<"S","E","L","E","C","T"," ","'","m","y"," ","a","p","p"," ","i","s",
      "'",";","\n">>

\* a schema qualifier `S.` at the start of a line
SqlLineStart ==
    <<"F","R","O","M","\n","a","p","p",".","u","s","e","r","s",";","\n">>

\* the quoted identifier "S" followed by a space
SqlQuoted ==
    <<"C","O","M","M","E","N","T"," ","O","N"," ","D","A","T","A","B","A",
      "S","E"," ","\"","a","p","p","\""," ","I","S"," ","'","x","'",";",
      "\n">>

\* S as the path of a connection URL
SqlUrl ==
    <<"-","-"," ","p","o","s","t","g","r","e","s",":","/","/","h","/","a",
      "p","p"," ","\n">>

\* `\c S` followed by a space
SqlConnectSpace ==
    <<"\\","c"," ","a","p","p"," ","\n">>

\* `\c S;`
SqlConnectSemicolon ==
    <<"\\","c"," ","a","p","p",";","\n">>

\* S twice, the two occurrences sharing the space between them
SqlTwoNames ==
    <<"G","R","A","N","T"," ","a","p","p"," ","a","p","p"," ","\n">>

SqlFragments ==
    {SqlCreateDatabase, SqlConnect, SqlQualified,
     SqlConnectLonger, SqlLiteral, SqlLineStart,
     SqlQuoted, SqlUrl, SqlConnectSpace,
     SqlConnectSemicolon, SqlTwoNames}

\* longest SQL text, in fragments
MaxFragments == 2

RECURSIVE Concat(_)
Concat(l) == IF l = <<>> THEN <<>> ELSE Head(l) \o Concat(Tail(l))

SqlTexts == {Concat(l) : l \in SeqsUpTo(SqlFragments, MaxFragments)}

RenameTargets == {NameApp, NameShop, NameAppDev}

\* the call and its return value
N_Replace ==
    /\ op = "rename"
    /\ n_pc = "start"
    /\ n_out' = replace_database_references(n_text, n_src, n_tgt)
    /\ n_pc' = "done"
    /\ UNCHANGED <<targetDbs, trace, pgChildren, manageVars, runVars, op, restoreVars, archiveVars, uploadVars, parseVars, configVars, downloadVars, schemaVars, seqVars, toolVars,
                   n_src, n_tgt, n_text>>

InitRename ==
    /\ targetDbs = {NamePostgres}
    /\ trace = <<>>
    /\ pgChildren = <<>>
    /\ ConfigIdle
    /\ DownloadIdle
    /\ SchemaIdle
    /\ RestoreIdle
    /\ ArchiveIdle
    /\ UploadIdle
    /\ ParseIdle
    /\ SeqIdle
    /\ ManageIdle
    /\ RunIdleExceptTools
    /\ tools = {}
    /\ ToolIdle
    /\ op = "rename"
    /\ n_pc = "start"
    /\ n_src = NameApp
    /\ n_tgt \in RenameTargets
    /\ n_text \in SqlTexts
    /\ n_out = <<>>

NextRename == N_Replace

SpecRename == InitRename /\ [][NextRename]_vars

\* the remapper on its own and inside execute_sql_file_with_psql
InitRemap == InitRename \/ InitTool

NextRemap == NextRename \/ NextTool

SpecRemap == InitRemap /\ [][NextRemap]_vars

---------------------------------------------------------------------------
(* The restore flow of restore/logic.rs: for every listed database create   *)
(* "<db>_restored", then apply its schema file and its data file            *)

RestoredSuffix == <<"_", "r", "e", "s", "t", "o", "r", "e", "d">>

\* format!("{}_restored", db_name)
Restored(db) == db \o RestoredSuffix

RestoreNames == {NameApp, NameShop}

\* the files "<db>_<timestamp>_schema.sql" and "<db>_<timestamp>_data.sql"
BackupFile(db, kind) == [db |-> db, kind |-> kind]

BackupFiles == {BackupFile(db, kind) : db \in RestoreNames, kind \in {"schema", "data"}}

FlowDone(r) == f_pc' = "done" /\ f_result' = r

\* the end of one iteration of `for db_name in db_names.split(',')`
FlowNext ==
    IF f_i < Len(f_list)
    THEN f_pc' = "f_admin" /\ f_i' = f_i + 1 /\ f_result' = f_result
    ELSE FlowDone("Ok") /\ f_i' = f_i

\* Url::parse(&original_url)? and the admin pool on /postgres (expect: a panic on failure)
F_AdminConnect ==
    /\ op = "restore"
    /\ f_pc = "f_admin"
    /\ \E urlOk \in BOOLEAN, ok \in BOOLEAN :
         IF ~urlOk /\ f_i = 1
         THEN FlowDone("ErrUrl") /\ trace' = trace
         ELSE /\ trace' = Append(trace, Event("connect", NamePostgres, f_i, ok))
              /\ IF ok THEN f_pc' = "f_exists" /\ f_result' = f_result
                 ELSE FlowDone("Panic")
    /\ UNCHANGED <<targetDbs, pgChildren, manageVars, runVars, op, f_list, f_i, f_files,
                   f_isDir, archiveVars, uploadVars, parseVars, configVars, downloadVars, schemaVars, renameVars, seqVars,
                   toolVars>>

\* SELECT EXISTS(... datname = "<db>_restored"); CREATE DATABASE when it does not
\* exist, return Ok(()) when it does
F_CreateIfAbsent ==
    /\ op = "restore"
    /\ f_pc = "f_exists"
    /\ LET restored == Restored(f_list[f_i])
       IN \E queried \in BOOLEAN, created \in BOOLEAN :
            IF ~queried
            THEN /\ FlowDone("Panic")
                 /\ trace' = Append(trace, Event("exists", restored, f_i, FALSE))
                 /\ targetDbs' = targetDbs
            ELSE IF restored \in targetDbs
            THEN /\ FlowDone("Ok")
                 /\ trace' = Append(trace, Event("exists", restored, f_i, TRUE))
                 /\ targetDbs' = targetDbs
            ELSE /\ trace' = trace \o <<Event("exists", restored, f_i, TRUE),
                                        Event("create", restored, f_i, created)>>
                 /\ IF created
                    THEN /\ targetDbs' = targetDbs \cup {restored}
                         /\ f_pc' = "f_connect"
                         /\ f_result' = f_result
                    ELSE /\ targetDbs' = targetDbs
                         /\ FlowDone("Panic")
    /\ UNCHANGED <<pgChildren, manageVars, runVars, op, f_list, f_i, f_files,
                   f_isDir, archiveVars, uploadVars, parseVars, configVars, downloadVars, schemaVars, renameVars, seqVars,
                   toolVars>>

\* check_db_connection(&target_url): return Ok(()) when it fails; then the pool
\* on the restored database (expect)
F_Connect ==
    /\ op = "restore"
    /\ f_pc = "f_connect"
    /\ \E reachable \in BOOLEAN, pooled \in BOOLEAN :
         IF ~reachable THEN FlowDone("Ok")
         ELSE IF ~pooled THEN FlowDone("Panic")
         ELSE f_pc' = "f_locate" /\ f_result' = f_result
    /\ UNCHANGED <<targetDbs, trace, pgChildren, manageVars, runVars, op, f_list, f_i,
                   f_files, f_isDir, archiveVars, uploadVars, parseVars, configVars, downloadVars, schemaVars, renameVars,
                   seqVars, toolVars>>

\* if path.is_dir(): the listing, then the two existence checks
F_Locate ==
    /\ op = "restore"
    /\ f_pc = "f_locate"
    /\ IF ~f_isDir THEN f_pc' = "f_single" /\ f_result' = f_result
       ELSE \E listed \in BOOLEAN :
              IF ~listed THEN FlowDone("ErrIo")
              ELSE IF BackupFile(f_list[f_i], "schema") \notin f_files
              THEN FlowDone("ErrSchemaFileNotFound")
              ELSE IF BackupFile(f_list[f_i], "data") \notin f_files
              THEN FlowDone("ErrDataFileNotFound")
              ELSE f_pc' = "f_schema" /\ f_result' = f_result
    /\ UNCHANGED <<targetDbs, trace, pgChildren, manageVars, runVars, op, f_list, f_i,
                   f_files, f_isDir, archiveVars, uploadVars, parseVars, configVars, downloadVars, schemaVars, renameVars,
                   seqVars, toolVars>>

\* restore_schema(&pool, schema_path)
F_Schema ==
    /\ op = "restore"
    /\ f_pc = "f_schema"
    /\ \E ok \in BOOLEAN :
         /\ trace' = Append(trace, Event("schema_apply", Restored(f_list[f_i]), f_i, ok))
         /\ IF ok THEN f_pc' = "f_data" /\ f_result' = f_result
            ELSE FlowDone("ErrSchemaRestore")
    /\ UNCHANGED <<targetDbs, pgChildren, manageVars, runVars, op, f_list, f_i, f_files,
                   f_isDir, archiveVars, uploadVars, parseVars, configVars, downloadVars, schemaVars, renameVars, seqVars,
                   toolVars>>

\* restore_from_sql_file(&pool, data_path), then the next database
F_Data ==
    /\ op = "restore"
    /\ f_pc = "f_data"
    /\ \E ok \in BOOLEAN :
         /\ trace' = Append(trace, Event("data_apply", Restored(f_list[f_i]), f_i, ok))
         /\ IF ok THEN FlowNext
            ELSE FlowDone("ErrDataRestore") /\ f_i' = f_i
    /\ UNCHANGED <<targetDbs, pgChildren, manageVars, runVars, op, f_list, f_files,
                   f_isDir, archiveVars, uploadVars, parseVars, configVars, downloadVars, schemaVars, renameVars, seqVars,
                   toolVars>>

\* the single-file case: restore_from_sql_file(&pool, &archive_path)?
F_Single ==
    /\ op = "restore"
    /\ f_pc = "f_single"
    /\ \E ok \in BOOLEAN :
         /\ trace' = Append(trace, Event("data_apply", Restored(f_list[f_i]), f_i, ok))
         /\ IF ok THEN FlowNext
            ELSE FlowDone("ErrRestore") /\ f_i' = f_i
    /\ UNCHANGED <<targetDbs, pgChildren, manageVars, runVars, op, f_list, f_files,
                   f_isDir, archiveVars, uploadVars, parseVars, configVars, downloadVars, schemaVars, renameVars, seqVars,
                   toolVars>>

InitRestore ==
    /\ targetDbs \in {{NamePostgres} \cup rs : rs \in SUBSET {Restored(d) : d \in RestoreNames}}
    /\ trace = <<>>
    /\ pgChildren = <<>>
    /\ ConfigIdle
    /\ DownloadIdle
    /\ SchemaIdle
    /\ ManageIdle
    /\ RunIdleExceptTools
    /\ tools = {}
    /\ ToolIdle
    /\ SeqIdle
    /\ RenameIdle
    /\ ArchiveIdle
    /\ UploadIdle
    /\ ParseIdle
    /\ op = "restore"
    /\ f_pc = "f_admin"
    /\ f_list \in SeqsUpTo(RestoreNames, MaxDbs) \ {<<>>}
    /\ f_i = 1
    /\ f_files \in SUBSET BackupFiles
    /\ f_isDir \in BOOLEAN
    /\ f_result = "none"

NextRestore ==
    \/ F_AdminConnect
    \/ F_CreateIfAbsent
    \/ F_Connect
    \/ F_Locate
    \/ F_Schema
    \/ F_Data
    \/ F_Single

SpecRestore == InitRestore /\ [][NextRestore]_vars

---------------------------------------------------------------------------
(* create_tar_gz_archive (backup/archive.rs): paths are sequences of         *)
(* components, an absolute path starts with the component "/"                *)

ComponentOrder == <<"a", "b">>

MaxDepth == 2

Node(path, kind) == [path |-> path, kind |-> kind]

RECURSIVE TreesUnder(_, _), TreesFrom(_, _, _)

\* what a directory entry named p can be: absent, a file, or a directory with content
EntryOptions(p, d) ==
    {{}} \cup {{Node(p, "file")}}
         \cup {{Node(p, "dir")} \cup sub : sub \in TreesUnder(p, d - 1)}

TreesFrom(prefix, d, i) ==
    IF i > Len(ComponentOrder) THEN {{}}
    ELSE {x \cup y : x \in EntryOptions(Append(prefix, ComponentOrder[i]), d),
                     y \in TreesFrom(prefix, d, i + 1)}

\* every content of the directory `prefix` that is at most d levels deep
TreesUnder(prefix, d) == IF d = 0 THEN {{}} ELSE TreesFrom(prefix, d, 1)

\* source_dir: the timestamped staging directory
SourceDirs == {<<"/", "tmp", "stage">>}

Rank(c) == CHOOSE i \in 1..Len(ComponentOrder) : ComponentOrder[i] = c

RECURSIVE PathBefore(_, _)
\* p comes before q when a directory is walked: a directory before its content,
\* siblings by name
PathBefore(p, q) ==
    IF p = <<>> THEN q # <<>>
    ELSE IF q = <<>> THEN FALSE
    ELSE IF Head(p) = Head(q) THEN PathBefore(Tail(p), Tail(q))
    ELSE Rank(Head(p)) < Rank(Head(q))

RECURSIVE InWalkOrder(_)
InWalkOrder(paths) ==
    IF paths = {} THEN <<>>
    ELSE LET first == CHOOSE p \in paths : \A q \in paths \ {p} : PathBefore(p, q)
         IN <<first>> \o InWalkOrder(paths \ {first})

\* Path::strip_prefix: the rest of path after base, an error when base is no prefix
strip_prefix(path, base) ==
    IF IsPrefix(base, path)
    THEN [ok |-> TRUE, rest |-> SubSeq(path, Len(base) + 1, Len(path))]
    ELSE [ok |-> FALSE, rest |-> <<>>]

\* the paths below `dir` (relative to it) of the nodes of the tree
Below(tree, dir) ==
    {SubSeq(n.path, Len(dir) + 1, Len(n.path)) :
        n \in {m \in tree : IsPrefix(dir, m.path) /\ m.path # dir}}

\* WalkDir::new(source_dir): the root itself first, then everything below it
WalkDir(root, tree) == <<root>> \o InWalkOrder({n.path : n \in tree})

\* path.is_dir()
is_dir(root, tree, path) == path = root \/ Node(path, "dir") \in tree

\* Builder::append_dir_all(name, path): the directory under `name` and, below
\* it, everything the directory holds
append_dir_all(tree, name, path) ==
    <<name>> \o [k \in 1..Cardinality(Below(tree, path)) |->
                    name \o InWalkOrder(Below(tree, path))[k]]

ArchiveDone(r) == a_pc' = "done" /\ a_result' = r

\* the checks of source_dir and of the destination, File::create, the builder
A_Open ==
    /\ op = "archive"
    /\ a_pc = "a_open"
    /\ \E created \in BOOLEAN :
         IF ~a_tree.isDir THEN ArchiveDone("ErrNotDirectory") /\ a_walk' = a_walk
         ELSE IF ~created THEN ArchiveDone("ErrCreate") /\ a_walk' = a_walk
         ELSE /\ a_pc' = "a_walk"
              /\ a_walk' = WalkDir(a_root, a_tree.nodes)
              /\ a_result' = a_result
    /\ UNCHANGED <<targetDbs, trace, pgChildren, manageVars, runVars, op, restoreVars,
                   a_root, a_tree, a_entries, uploadVars, parseVars, configVars, downloadVars, schemaVars, renameVars,
                   seqVars, toolVars>>

\* mutant: the root directory itself is appended like any other directory
A_EntryKeepsRoot ==
    /\ op = "archive"
    /\ a_pc = "a_walk"
    /\ a_walk # <<>>
    /\ LET path == Head(a_walk)
           name == strip_prefix(path, a_root)
       IN \E walked \in BOOLEAN, appended \in BOOLEAN :
            IF ~walked THEN ArchiveDone("ErrWalk") /\ UNCHANGED <<a_walk, a_entries>>
            ELSE IF ~name.ok THEN ArchiveDone("ErrStripPrefix") /\ UNCHANGED <<a_walk, a_entries>>
            ELSE IF ~appended THEN ArchiveDone("ErrAppend") /\ UNCHANGED <<a_walk, a_entries>>
            ELSE /\ a_walk' = Tail(a_walk)
                 /\ a_entries' = a_entries \o
                       (IF is_dir(a_root, a_tree.nodes, path)
                        THEN append_dir_all(a_tree.nodes, name.rest, path)
                        ELSE <<name.rest>>)
                 /\ UNCHANGED <<a_pc, a_result>>
    /\ UNCHANGED <<targetDbs, trace, pgChildren, manageVars, runVars, op, restoreVars,
                   a_root, a_tree, uploadVars, parseVars, configVars, downloadVars, schemaVars, renameVars, seqVars, toolVars>>

\* one iteration of `for entry in WalkDir::new(source_dir)`
A_Entry ==
    /\ op = "archive"
    /\ a_pc = "a_walk"
    /\ a_walk # <<>>
    /\ LET path == Head(a_walk)
           name == strip_prefix(path, a_root)
       IN \E walked \in BOOLEAN, appended \in BOOLEAN :
            IF ~walked THEN ArchiveDone("ErrWalk") /\ UNCHANGED <<a_walk, a_entries>>
            ELSE IF ~name.ok THEN ArchiveDone("ErrStripPrefix") /\ UNCHANGED <<a_walk, a_entries>>
            ELSE IF name.rest = <<>>
            THEN /\ a_walk' = Tail(a_walk)
                 /\ UNCHANGED <<a_pc, a_result, a_entries>>
            ELSE IF ~appended THEN ArchiveDone("ErrAppend") /\ UNCHANGED <<a_walk, a_entries>>
            ELSE /\ a_walk' = Tail(a_walk)
                 /\ a_entries' = a_entries \o
                       (IF is_dir(a_root, a_tree.nodes, path)
                        THEN append_dir_all(a_tree.nodes, name.rest, path)
                        ELSE <<name.rest>>)
                 /\ UNCHANGED <<a_pc, a_result>>
    /\ UNCHANGED <<targetDbs, trace, pgChildren, manageVars, runVars, op, restoreVars,
                   a_root, a_tree, uploadVars, parseVars, configVars, downloadVars, schemaVars, renameVars, seqVars, toolVars>>

\* tar_builder.into_inner()? and encoder.finish()?
A_Finish ==
    /\ op = "archive"
    /\ a_pc = "a_walk"
    /\ a_walk = <<>>
    /\ \E finished \in BOOLEAN :
         IF finished THEN ArchiveDone("Ok") ELSE ArchiveDone("ErrFinish")
    /\ UNCHANGED <<targetDbs, trace, pgChildren, manageVars, runVars, op, restoreVars,
                   a_root, a_tree, a_walk, a_entries, uploadVars, parseVars, configVars, downloadVars, schemaVars, renameVars,
                   seqVars, toolVars>>

InitArchive ==
    /\ targetDbs = {NamePostgres}
    /\ trace = <<>>
    /\ pgChildren = <<>>
    /\ ConfigIdle
    /\ DownloadIdle
    /\ SchemaIdle
    /\ ManageIdle
    /\ RunIdleExceptTools
    /\ tools = {}
    /\ ToolIdle
    /\ SeqIdle
    /\ RenameIdle
    /\ RestoreIdle
    /\ UploadIdle
    /\ ParseIdle
    /\ op = "archive"
    /\ a_pc = "a_open"
    /\ a_root \in SourceDirs
    /\ a_tree \in {[isDir |-> FALSE, nodes |-> {}]}
                  \cup {[isDir |-> TRUE, nodes |-> t] : t \in TreesUnder(a_root, MaxDepth)}
    /\ a_walk = <<>>
    /\ a_entries = <<>>
    /\ a_result = "none"

NextArchive ==
    \/ A_Open
    \/ A_Entry
    \/ A_Finish

SpecArchive == InitArchive /\ [][NextArchive]_vars

---------------------------------------------------------------------------
(* upload_file_to_s3 (backup/s3_upload.rs) *)

UploadDone(r) == u_pc' = "done" /\ u_result' = r

\* the client is built, then ByteStream::from_path(file_path)?
U_Open ==
    /\ op = "upload"
    /\ u_pc = "u_open"
    /\ IF u_readable THEN u_pc' = "u_send" /\ u_result' = u_result
       ELSE UploadDone("ErrByteStream")
    /\ UNCHANGED <<targetDbs, trace, pgChildren, manageVars, runVars, op, restoreVars,
                   archiveVars, u_readable, u_sends, parseVars, configVars, downloadVars, schemaVars, renameVars, seqVars,
                   toolVars>>

\* client.put_object()...send().await?, then Ok(())
U_Send ==
    /\ op = "upload"
    /\ u_pc = "u_send"
    /\ u_sends' = u_sends + 1
    /\ \E sent \in BOOLEAN :
         IF sent THEN UploadDone("Ok") ELSE UploadDone("ErrUpload")
    /\ UNCHANGED <<targetDbs, trace, pgChildren, manageVars, runVars, op, restoreVars,
                   archiveVars, u_readable, parseVars, configVars, downloadVars, schemaVars, renameVars, seqVars, toolVars>>

InitUpload ==
    /\ targetDbs = {NamePostgres}
    /\ trace = <<>>
    /\ pgChildren = <<>>
    /\ ConfigIdle
    /\ DownloadIdle
    /\ SchemaIdle
    /\ ManageIdle
    /\ RunIdleExceptTools
    /\ tools = {}
    /\ ToolIdle
    /\ SeqIdle
    /\ RenameIdle
    /\ RestoreIdle
    /\ ArchiveIdle
    /\ ParseIdle
    /\ op = "upload"
    /\ u_pc = "u_open"
    /\ u_readable \in BOOLEAN
    /\ u_sends = 0
    /\ u_result = "none"

NextUpload ==
    \/ U_Open
    \/ U_Send

\* the archive is written, and an archive is uploaded
InitShip == InitArchive \/ InitUpload

NextShip == NextArchive \/ NextUpload

SpecShip == InitShip /\ [][NextShip]_vars

---------------------------------------------------------------------------
(* The database_list parsers of config/mod.rs, over serde_json values *)

MaxItems == 2

JsonStrings == {"db1", "db2", "dev"}

\* the elements of arrays and the values of objects: strings and one number
JStr(s) == [t |-> "string", s |-> s]

JNum == [t |-> "number", s |-> "7"]

JsonElements == {JStr(s) : s \in JsonStrings} \cup {JNum}

JsonKeys == {"db1", "db2"}

Member(key, val) == [key |-> key, val |-> val]

\* the members of a JSON object: no key twice
JsonObjects ==
    UNION {{{Member(k, f[k]) : k \in ks} : f \in [ks -> JsonElements]} :
              ks \in {s \in SUBSET JsonKeys : Cardinality(s) <= MaxItems}}

Absent == [kind |-> "absent", items |-> <<>>, members |-> {}]

JsonValue(kind, items, members) == [kind |-> kind, items |-> items, members |-> members]

\* Option<serde_json::Value>: None, or Some of a scalar, an array or an object
ConfigValues ==
    {Absent}
    \cup {JsonValue(k, <<>>, {}) : k \in {"string", "number", "bool", "null"}}
    \cup {JsonValue("array", l, {}) : l \in SeqsUpTo(JsonElements, MaxItems)}
    \cup {JsonValue("object", <<>>, o) : o \in JsonObjects}

Unparsed == [state |-> "unset", some |-> FALSE, val |-> <<>>]

ParseErr == [state |-> "Err", some |-> FALSE, val |-> <<>>]

\* the same for the parser that returns a map
UnparsedMap == [state |-> "unset", some |-> FALSE, val |-> {}]

MapErr == [state |-> "Err", some |-> FALSE, val |-> {}]

ParseOk(some, val) == [state |-> "Ok", some |-> some, val |-> val]

\* serde_json::from_value::<Vec<String>>: every element has to be a string
AllStrings(items) == \A k \in 1..Len(items) : items[k].t = "string"

StringsOf(items) == [k \in 1..Len(items) |-> items[k].s]

\* serde_json::from_value::<HashMap<String, String>>: every value has to be a string
AllStringValues(members) == \A m \in members : m.val.t = "string"

\* the orders in which the keys of a HashMap can be iterated
KeyOrders(keys) ==
    {l \in SeqsUpTo(keys, Cardinality(keys)) :
        Len(l) = Cardinality(keys) /\ {l[k] : k \in 1..Len(l)} = keys}

\* mutant: for an object the target names are collected instead of the source names
parse_database_list_takes_targets(v) ==
    IF v.kind = "absent" THEN {ParseOk(FALSE, <<>>)}
    ELSE IF v.kind = "array"
    THEN IF AllStrings(v.items) THEN {ParseOk(TRUE, StringsOf(v.items))} ELSE {ParseErr}
    ELSE IF v.kind = "object"
    THEN IF AllStringValues(v.members)
         THEN {ParseOk(TRUE, l) : l \in KeyOrders({m.val.s : m \in v.members})}
         ELSE {ParseErr}
    ELSE {ParseErr}

\* every value the function can return: the order of mapping.keys() is not fixed
parse_database_list_for_backup_sync(v) ==
    IF v.kind = "absent" THEN {ParseOk(FALSE, <<>>)}
    ELSE IF v.kind = "array"
    THEN IF AllStrings(v.items) THEN {ParseOk(TRUE, StringsOf(v.items))} ELSE {ParseErr}
    ELSE IF v.kind = "object"
    THEN IF AllStringValues(v.members)
         THEN {ParseOk(TRUE, l) : l \in KeyOrders({m.key : m \in v.members})}
         ELSE {ParseErr}
    ELSE {ParseErr}

\* a HashMap<String, String> as its set of (source, target) entries
MapEntry(src, tgt) == [src |-> src, tgt |-> tgt]

parse_database_list_for_restore(v) ==
    IF v.kind = "absent" THEN ParseOk(FALSE, {})
    ELSE IF v.kind = "array"
    THEN IF AllStrings(v.items)
         THEN ParseOk(TRUE, {MapEntry(v.items[k].s, v.items[k].s) : k \in 1..Len(v.items)})
         ELSE MapErr
    ELSE IF v.kind = "object"
    THEN IF AllStringValues(v.members)
         THEN ParseOk(TRUE, {MapEntry(m.key, m.val.s) : m \in v.members})
         ELSE MapErr
    ELSE MapErr

\* load_backup_config_from_json / load_sync_config_from_json parse the list
C_ParseBackupSync ==
    /\ op = "parse"
    /\ c_backup = Unparsed
    /\ c_backup' \in parse_database_list_for_backup_sync(c_value)
    /\ c_pc' = IF c_restore = UnparsedMap THEN c_pc ELSE "done"
    /\ UNCHANGED <<targetDbs, trace, pgChildren, manageVars, runVars, op, restoreVars,
                   archiveVars, uploadVars, configVars, downloadVars, schemaVars, c_value, c_restore, renameVars, seqVars,
                   toolVars>>

\* load_restore_config_from_json parses the list
C_ParseRestore ==
    /\ op = "parse"
    /\ c_restore = UnparsedMap
    /\ c_restore' = parse_database_list_for_restore(c_value)
    /\ c_pc' = IF c_backup = Unparsed THEN c_pc ELSE "done"
    /\ UNCHANGED <<targetDbs, trace, pgChildren, manageVars, runVars, op, restoreVars,
                   archiveVars, uploadVars, configVars, downloadVars, schemaVars, c_value, c_backup, renameVars, seqVars,
                   toolVars>>

InitParse ==
    /\ targetDbs = {NamePostgres}
    /\ trace = <<>>
    /\ pgChildren = <<>>
    /\ ConfigIdle
    /\ DownloadIdle
    /\ SchemaIdle
    /\ ManageIdle
    /\ RunIdleExceptTools
    /\ tools = {}
    /\ ToolIdle
    /\ SeqIdle
    /\ RenameIdle
    /\ RestoreIdle
    /\ ArchiveIdle
    /\ UploadIdle
    /\ op = "parse"
    /\ c_pc = "start"
    /\ c_value \in ConfigValues
    /\ c_backup = Unparsed
    /\ c_restore = UnparsedMap

NextParse ==
    \/ C_ParseBackupSync
    \/ C_ParseRestore

SpecParse == InitParse /\ [][NextParse]_vars

---------------------------------------------------------------------------
(* Loading config.json (config/mod.rs) and the choice of run_app (main.rs) *)

None == [some |-> FALSE, val |-> <<>>]

Some(v) == [some |-> TRUE, val |-> v]

\* an Option<String> of config.json: missing, "" or some text
OptionalStrings == {None, Some(<<>>), Some(<<"x">>)}

S3Fields == {"bucket_name", "region", "access_key_id", "secret_access_key", "endpoint_url"}

\* s3_storage: Option<JsonS3StorageConfig>
S3Storages ==
    {[present |-> FALSE, fields |-> [f \in S3Fields |-> None]]}
    \cup {[present |-> TRUE, fields |-> fs] : fs \in [S3Fields -> OptionalStrings]}

\* archive_file_path_for_restore: missing, blank, a local path, an s3:// URI
PathLocal == <<"/", "b", ".", "t", "g", "z">>

PathS3 == <<"s", "3", ":", "/", "/", "b", "/", "k">>

ArchivePaths == {None, Some(<<" ">>), Some(PathLocal), Some(PathS3)}

RawConfigs ==
    [choice : {"backup"}, s3 : S3Storages, source_database_url : BOOLEAN,
     local_backup_dir : OptionalStrings, target_database_url : {FALSE},
     archive : {None}, restore_options : {FALSE}, listOk : BOOLEAN]
    \cup
    [choice : {"restore"}, s3 : S3Storages, source_database_url : {FALSE},
     local_backup_dir : {None}, target_database_url : BOOLEAN,
     archive : ArchivePaths, restore_options : BOOLEAN, listOk : BOOLEAN]

\* Option::filter(|s| !s.is_empty())
NonEmpty(o) == IF o.some /\ Len(o.val) # 0 THEN o ELSE None

\* mutant: a field that is present counts, empty or not
spaces_config_keeps_empty(s3) ==
    /\ s3.present
    /\ \A f \in S3Fields : s3.fields[f].some

\* the and_then closure of load_from_json: Some exactly when it returns Some(SpacesConfig)
spaces_config(s3) ==
    /\ s3.present
    /\ \A f \in S3Fields : NonEmpty(s3.fields[f]).some

NoOperation == [state |-> "none", upload |-> FALSE, download |-> FALSE]

ConfigErr(e) == [state |-> e, upload |-> FALSE, download |-> FALSE]

\* AppConfig::load_from_json and `spaces_is_configured = spaces_config.is_some()`
G_LoadFromJson ==
    /\ op = "config"
    /\ g_pc = "g_load"
    /\ \E readable \in BOOLEAN :
         IF ~readable
         THEN g_pc' = "done" /\ g_result' = ConfigErr("ErrConfigFile") /\ g_spaces' = g_spaces
         ELSE /\ g_spaces' = spaces_config(g_raw.s3)
              /\ g_pc' = IF g_raw.choice = "backup" THEN "g_backup" ELSE "g_restore"
              /\ g_result' = g_result
    /\ UNCHANGED <<targetDbs, trace, pgChildren, manageVars, runVars, op, restoreVars,
                   archiveVars, uploadVars, parseVars, g_raw, downloadVars, schemaVars,
                   renameVars, seqVars, toolVars>>

\* load_backup_config_from_json(&raw_json_config, spaces_is_configured)
G_LoadBackup ==
    /\ op = "config"
    /\ g_pc = "g_backup"
    /\ g_pc' = "done"
    /\ g_result' =
         IF ~g_raw.source_database_url THEN ConfigErr("ErrSourceUrlMissing")
         ELSE IF ~g_raw.local_backup_dir.some THEN ConfigErr("ErrBackupDirMissing")
         ELSE IF Len(g_raw.local_backup_dir.val) = 0 THEN ConfigErr("ErrBackupDirEmpty")
         ELSE IF ~g_raw.listOk THEN ConfigErr("ErrDatabaseList")
         ELSE [state |-> "Ok", upload |-> g_spaces, download |-> FALSE]
    /\ UNCHANGED <<targetDbs, trace, pgChildren, manageVars, runVars, op, restoreVars,
                   archiveVars, uploadVars, parseVars, g_raw, g_spaces, downloadVars,
                   schemaVars, renameVars, seqVars, toolVars>>

\* load_restore_config_from_json(&raw_json_config, spaces_is_configured)
G_LoadRestore ==
    /\ op = "config"
    /\ g_pc = "g_restore"
    /\ g_pc' = "done"
    /\ LET download_from_spaces == starts_with(g_raw.archive.val, <<"s", "3", ":", "/", "/">>)
       IN g_result' =
            IF ~g_raw.target_database_url THEN ConfigErr("ErrTargetUrlMissing")
            ELSE IF ~g_raw.archive.some THEN ConfigErr("ErrArchiveMissing")
            ELSE IF TrimIsEmpty(g_raw.archive.val) THEN ConfigErr("ErrArchiveEmpty")
            ELSE IF ~g_raw.restore_options THEN ConfigErr("ErrRestoreOptionsMissing")
            ELSE IF download_from_spaces /\ ~g_spaces THEN ConfigErr("ErrS3NotConfigured")
            ELSE IF ~g_raw.listOk THEN ConfigErr("ErrDatabaseList")
            ELSE [state |-> "Ok", upload |-> FALSE, download |-> download_from_spaces]
    /\ UNCHANGED <<targetDbs, trace, pgChildren, manageVars, runVars, op, restoreVars,
                   archiveVars, uploadVars, parseVars, g_raw, g_spaces, downloadVars,
                   schemaVars, renameVars, seqVars, toolVars>>

InitConfig ==
    /\ targetDbs = {NamePostgres}
    /\ trace = <<>>
    /\ pgChildren = <<>>
    /\ DownloadIdle
    /\ SchemaIdle
    /\ ManageIdle
    /\ RunIdleExceptTools
    /\ tools = {}
    /\ ToolIdle
    /\ SeqIdle
    /\ RenameIdle
    /\ RestoreIdle
    /\ ArchiveIdle
    /\ UploadIdle
    /\ ParseIdle
    /\ op = "config"
    /\ g_pc = "g_load"
    /\ g_raw \in RawConfigs
    /\ g_spaces = FALSE
    /\ g_result = NoOperation

NextConfig ==
    \/ G_LoadFromJson
    \/ G_LoadBackup
    \/ G_LoadRestore

SpecConfig == InitConfig /\ [][NextConfig]_vars

---------------------------------------------------------------------------
(* download_file_from_s3, restore/s3_download.rs *)

MaxChunks == 2

\* the byte chunks a body stream may deliver
Chunks == {<<"x">>, <<"y", "z">>, <<"w", "x", "y">>}

ObjectBodies == SeqsUpTo(Chunks, MaxChunks)

\* the bytes of a sequence of chunks
RECURSIVE Bytes(_)
Bytes(chunks) ==
    IF chunks = <<>> THEN <<>> ELSE Head(chunks) \o Bytes(Tail(chunks))

DownloadDone(res) ==
    /\ d_pc' = "done"
    /\ d_result' = res

\* create_dir_all of the parent directory and File::create of the destination
D_CreateFile ==
    /\ op = "download"
    /\ d_pc = "d_create"
    /\ \E dirOk \in BOOLEAN, fileOk \in BOOLEAN :
         IF ~dirOk THEN DownloadDone("ErrCreateDir")
         ELSE IF ~fileOk THEN DownloadDone("ErrCreateFile")
         ELSE d_pc' = "d_get" /\ d_result' = d_result
    /\ UNCHANGED <<targetDbs, trace, pgChildren, manageVars, runVars, op, restoreVars, archiveVars, uploadVars, parseVars, configVars, d_body, d_written, schemaVars, renameVars, seqVars, toolVars>>

\* client.get_object().bucket(..).key(..).send()
D_GetObject ==
    /\ op = "download"
    /\ d_pc = "d_get"
    /\ \E ok \in BOOLEAN :
         IF ok THEN d_pc' = "d_body" /\ d_result' = d_result
         ELSE DownloadDone("ErrGetObject")
    /\ UNCHANGED <<targetDbs, trace, pgChildren, manageVars, runVars, op, restoreVars, archiveVars, uploadVars, parseVars, configVars, d_body, d_written, schemaVars, renameVars, seqVars, toolVars>>

\* one evaluation of `while let Ok(Some(bytes_chunk)) = object.body.try_next().await`
\* with its loop body: Err(_) and Ok(None) both leave the loop, and the function
\* goes on to Ok(destination_path)
D_Chunk ==
    /\ op = "download"
    /\ d_pc = "d_body"
    /\ \E readOk \in BOOLEAN, writeOk \in BOOLEAN :
         IF ~readOk \/ Len(d_written) = Len(d_body)
         THEN DownloadDone("Ok") /\ d_written' = d_written
         ELSE IF ~writeOk
         THEN DownloadDone("ErrWrite") /\ d_written' = d_written
         ELSE /\ d_written' = Append(d_written, d_body[Len(d_written) + 1])
              /\ UNCHANGED <<d_pc, d_result>>
    /\ UNCHANGED <<targetDbs, trace, pgChildren, manageVars, runVars, op, restoreVars, archiveVars, uploadVars, parseVars, configVars, d_body, schemaVars, renameVars, seqVars, toolVars>>

InitDownload ==
    /\ targetDbs = {NamePostgres}
    /\ trace = <<>>
    /\ pgChildren = <<>>
    /\ ConfigIdle
    /\ SchemaIdle
    /\ RestoreIdle
    /\ ArchiveIdle
    /\ UploadIdle
    /\ ParseIdle
    /\ ManageIdle
    /\ RunIdleExceptTools
    /\ tools = {}
    /\ ToolIdle
    /\ RenameIdle
    /\ SeqIdle
    /\ op = "download"
    /\ d_pc = "d_create"
    /\ d_body \in ObjectBodies
    /\ d_written = <<>>
    /\ d_result = "none"

NextDownload ==
    \/ D_CreateFile
    \/ D_GetObject
    \/ D_Chunk

SpecDownload == InitDownload /\ [][NextDownload]_vars

---------------------------------------------------------------------------
(* restore_schema, restore/logic.rs *)

MaxStmts == 2

MAX_ATTEMPTS == 3

\* statements of a schema file, as their words
StmtSequence == <<"CREATE", "SEQUENCE", "users_id_seq">>
StmtUsers == <<"CREATE", "TABLE", "users">>
StmtOrders == <<"CREATE", "TABLE", "orders">>
StmtOwner == <<"ALTER", "TABLE", "users", "OWNER">>

Statements == {StmtSequence, StmtUsers, StmtOrders, StmtOwner}

\* stmt.contains("CREATE SEQUENCE")
IsSequenceStmt(stmt) == Contains(stmt, <<"CREATE", "SEQUENCE">>)

\* stmt.contains("CREATE TABLE") on what the first partition left
IsTableStmt(stmt) == ~IsSequenceStmt(stmt) /\ Contains(stmt, <<"CREATE", "TABLE">>)

IsOtherStmt(stmt) == ~IsSequenceStmt(stmt) /\ ~IsTableStmt(stmt)

\* what the server answers to one statement
ExecOutcomes == {"exec_ok", "exec_exists", "exec_failed"}

SchemaDone(res) ==
    /\ k_pc' = "done"
    /\ k_result' = res

\* read_to_string, split_sql_with_dollar_quotes and the first partition
K_Read ==
    /\ op = "schema"
    /\ k_pc = "k_read"
    /\ \E readOk \in BOOLEAN :
         IF readOk
         THEN /\ k_queue' = SelectSeq(k_stmts, IsSequenceStmt)
              /\ k_pc' = "k_seq"
              /\ k_result' = k_result
         ELSE SchemaDone("ErrRead") /\ k_queue' = k_queue
    /\ UNCHANGED <<targetDbs, trace, pgChildren, manageVars, runVars, op, restoreVars, archiveVars, uploadVars, parseVars, configVars, downloadVars, k_stmts, k_next, k_attempts, renameVars, seqVars, toolVars>>

\* one iteration of `for stmt in sequences`
K_Sequence ==
    /\ op = "schema"
    /\ k_pc = "k_seq"
    /\ k_queue # <<>>
    /\ \E begun \in BOOLEAN, out \in ExecOutcomes, ended \in BOOLEAN :
         IF ~begun
         THEN SchemaDone("ErrBegin") /\ UNCHANGED <<trace, k_queue>>
         ELSE /\ trace' = Append(trace, Event(out, Head(k_queue), 0, out # "exec_failed"))
              /\ IF ~ended
                 THEN SchemaDone("ErrEnd") /\ k_queue' = k_queue
                 ELSE IF out = "exec_failed"
                 THEN SchemaDone("ErrSequence") /\ k_queue' = k_queue
                 ELSE k_queue' = Tail(k_queue) /\ UNCHANGED <<k_pc, k_result>>
    /\ UNCHANGED <<targetDbs, pgChildren, manageVars, runVars, op, restoreVars, archiveVars, uploadVars, parseVars, configVars, downloadVars, k_stmts, k_next, k_attempts, renameVars, seqVars, toolVars>>

\* `let mut remaining_tables = tables; let mut attempts = 0;` after the last sequence
K_StartTables ==
    /\ op = "schema"
    /\ k_pc = "k_seq"
    /\ k_queue = <<>>
    /\ k_queue' = SelectSeq(k_stmts, IsTableStmt)
    /\ k_attempts' = 0
    /\ k_pc' = "k_while"
    /\ UNCHANGED <<targetDbs, trace, pgChildren, manageVars, runVars, op, restoreVars, archiveVars, uploadVars, parseVars, configVars, downloadVars, k_stmts, k_next, k_result, renameVars, seqVars, toolVars>>

\* K_While with the loop bound tested as attempts <= MAX_ATTEMPTS
K_WhileOneMorePass ==
    /\ op = "schema"
    /\ k_pc = "k_while"
    /\ IF k_queue # <<>> /\ k_attempts <= MAX_ATTEMPTS
       THEN /\ k_attempts' = k_attempts + 1
            /\ k_next' = <<>>
            /\ k_pc' = "k_table"
            /\ UNCHANGED <<k_queue, k_result>>
       ELSE IF k_queue # <<>>
       THEN SchemaDone("ErrTables") /\ UNCHANGED <<k_queue, k_next, k_attempts>>
       ELSE /\ k_queue' = SelectSeq(k_stmts, IsOtherStmt)
            /\ k_pc' = "k_other"
            /\ UNCHANGED <<k_next, k_attempts, k_result>>
    /\ UNCHANGED <<targetDbs, trace, pgChildren, manageVars, runVars, op, restoreVars, archiveVars, uploadVars, parseVars, configVars, downloadVars, k_stmts, renameVars, seqVars, toolVars>>

\* the test of `while !remaining_tables.is_empty() && attempts < MAX_ATTEMPTS`,
\* and after the loop the check of remaining_tables
K_While ==
    /\ op = "schema"
    /\ k_pc = "k_while"
    /\ IF k_queue # <<>> /\ k_attempts < MAX_ATTEMPTS
       THEN /\ k_attempts' = k_attempts + 1
            /\ k_next' = <<>>
            /\ k_pc' = "k_table"
            /\ UNCHANGED <<k_queue, k_result>>
       ELSE IF k_queue # <<>>
       THEN SchemaDone("ErrTables") /\ UNCHANGED <<k_queue, k_next, k_attempts>>
       ELSE /\ k_queue' = SelectSeq(k_stmts, IsOtherStmt)
            /\ k_pc' = "k_other"
            /\ UNCHANGED <<k_next, k_attempts, k_result>>
    /\ UNCHANGED <<targetDbs, trace, pgChildren, manageVars, runVars, op, restoreVars, archiveVars, uploadVars, parseVars, configVars, downloadVars, k_stmts, renameVars, seqVars, toolVars>>

\* one iteration of `for stmt in remaining_tables`
K_Table ==
    /\ op = "schema"
    /\ k_pc = "k_table"
    /\ k_queue # <<>>
    /\ \E begun \in BOOLEAN, out \in ExecOutcomes, ended \in BOOLEAN :
         IF ~begun
         THEN SchemaDone("ErrBegin") /\ UNCHANGED <<trace, k_queue, k_next>>
         ELSE /\ trace' = Append(trace, Event(out, Head(k_queue), k_attempts, out # "exec_failed"))
              /\ IF ~ended
                 THEN SchemaDone("ErrEnd") /\ UNCHANGED <<k_queue, k_next>>
                 ELSE /\ k_queue' = Tail(k_queue)
                      /\ k_next' = IF out = "exec_failed"
                                   THEN Append(k_next, Head(k_queue))
                                   ELSE k_next
                      /\ UNCHANGED <<k_pc, k_result>>
    /\ UNCHANGED <<targetDbs, pgChildren, manageVars, runVars, op, restoreVars, archiveVars, uploadVars, parseVars, configVars, downloadVars, k_stmts, k_attempts, renameVars, seqVars, toolVars>>

\* `remaining_tables = next_remaining;` at the end of a pass
K_PassEnd ==
    /\ op = "schema"
    /\ k_pc = "k_table"
    /\ k_queue = <<>>
    /\ k_queue' = k_next
    /\ k_next' = <<>>
    /\ k_pc' = "k_while"
    /\ UNCHANGED <<targetDbs, trace, pgChildren, manageVars, runVars, op, restoreVars, archiveVars, uploadVars, parseVars, configVars, downloadVars, k_stmts, k_attempts, k_result, renameVars, seqVars, toolVars>>

\* one iteration of `for stmt in others`
K_Other ==
    /\ op = "schema"
    /\ k_pc = "k_other"
    /\ k_queue # <<>>
    /\ \E begun \in BOOLEAN, out \in ExecOutcomes, ended \in BOOLEAN :
         IF ~begun
         THEN SchemaDone("ErrBegin") /\ UNCHANGED <<trace, k_queue>>
         ELSE /\ trace' = Append(trace, Event(out, Head(k_queue), 0, out # "exec_failed"))
              /\ IF ~ended
                 THEN SchemaDone("ErrEnd") /\ k_queue' = k_queue
                 ELSE k_queue' = Tail(k_queue) /\ UNCHANGED <<k_pc, k_result>>
    /\ UNCHANGED <<targetDbs, pgChildren, manageVars, runVars, op, restoreVars, archiveVars, uploadVars, parseVars, configVars, downloadVars, k_stmts, k_next, k_attempts, renameVars, seqVars, toolVars>>

\* Ok(()) after the last of the other statements
K_Return ==
    /\ op = "schema"
    /\ k_pc = "k_other"
    /\ k_queue = <<>>
    /\ SchemaDone("Ok")
    /\ UNCHANGED <<targetDbs, trace, pgChildren, manageVars, runVars, op, restoreVars, archiveVars, uploadVars, parseVars, configVars, downloadVars, k_stmts, k_queue, k_next, k_attempts, renameVars, seqVars, toolVars>>

InitSchema ==
    /\ targetDbs = {NamePostgres}
    /\ trace = <<>>
    /\ pgChildren = <<>>
    /\ ConfigIdle
    /\ DownloadIdle
    /\ RestoreIdle
    /\ ArchiveIdle
    /\ UploadIdle
    /\ ParseIdle
    /\ ManageIdle
    /\ RunIdleExceptTools
    /\ tools = {}
    /\ ToolIdle
    /\ RenameIdle
    /\ SeqIdle
    /\ op = "schema"
    /\ k_pc = "k_read"
    /\ k_stmts \in SeqsUpTo(Statements, MaxStmts)
    /\ k_queue = <<>>
    /\ k_next = <<>>
    /\ k_attempts = 0
    /\ k_result = "none"

NextSchema ==
    \/ K_Read
    \/ K_Sequence
    \/ K_StartTables
    \/ K_While
    \/ K_Table
    \/ K_PassEnd
    \/ K_Other
    \/ K_Return

SpecSchema == InitSchema /\ [][NextSchema]_vars

---------------------------------------------------------------------------
(* Properties of manage_target_database (SpecManage) *)

IsPostgresName(n) == eq_ignore_ascii_case(n, NamePostgres)

ManageErrors == {"ErrUrl", "ErrConnect", "ErrQuery", "ErrProtected", "ErrMissing",
                 "ErrTerminate", "ErrDrop", "ErrCreate"}

AdminIssued == SelectKinds(trace, AdminStmts)

\* C1: no DROP DATABASE is ever issued for a name that equals 'postgres' ignoring
\* ASCII case, and a call for such a name that existed, with drop_if_exists set,
\* ends in an error with no terminate, drop or create issued.
C1_PostgresNeverDropped ==
    /\ \A i \in 1..Len(trace) :
         trace[i].kind = "drop" => ~IsPostgresName(trace[i].db)
    /\ (m_pc = "done" /\ IsPostgresName(m_name) /\ m_name \in dbs0 /\ m_drop)
         => (m_result \in ManageErrors /\ AdminIssued = <<>>)

C1_Witness ==
    /\ m_pc = "done"
    /\ m_name = NamePostgresCap
    /\ m_name \in dbs0
    /\ m_drop
    /\ m_result = "ErrProtected"

\* C2: for an existing, unprotected database with drop_if_exists set, the admin
\* statements issued are a prefix of terminate, drop, create; each is issued only
\* after the one before it succeeded; the call returns Ok(true) exactly after all
\* three succeeded and otherwise returns the error of the statement that failed.
C2_TerminateDropCreate ==
    (m_exists = "yes" /\ m_drop /\ ~IsPostgresName(m_name)) =>
        /\ IsPrefix(KindsOf(AdminIssued), <<"terminate", "drop", "create">>)
        /\ \A i \in 2..Len(AdminIssued) : AdminIssued[i - 1].ok
        /\ \A i \in 1..Len(AdminIssued) : AdminIssued[i].db = m_name
        /\ m_pc # "done" => \A i \in 1..Len(AdminIssued) : AdminIssued[i].ok
        /\ m_pc = "done" =>
             \/ /\ m_result = "OkTrue"
                /\ Len(AdminIssued) = 3
                /\ \A i \in 1..3 : AdminIssued[i].ok
             \/ /\ m_result \in {"ErrTerminate", "ErrDrop", "ErrCreate"}
                /\ AdminIssued # <<>>
                /\ ~AdminIssued[Len(AdminIssued)].ok

C2_Witness ==
    /\ m_pc = "done"
    /\ m_exists = "yes"
    /\ m_drop
    /\ m_result = "OkTrue"
    /\ KindsOf(AdminIssued) = <<"terminate", "drop", "create">>

\* C3: when the lookup finds the database absent, create_if_absent=true issues
\* exactly one CREATE (no terminate, no drop) and returns Ok(true) when that CREATE
\* succeeds; create_if_absent=false returns the missing-database error, issues
\* nothing, and the database is still absent.
C3_AbsentDatabase ==
    (m_pc = "done" /\ m_exists = "no") =>
        IF m_create
        THEN /\ KindsOf(AdminIssued) = <<"create">>
             /\ AdminIssued[1].db = m_name
             /\ AdminIssued[1].ok => (m_result = "OkTrue" /\ m_name \in targetDbs)
             /\ ~AdminIssued[1].ok => m_result = "ErrCreate"
        ELSE /\ m_result = "ErrMissing"
             /\ AdminIssued = <<>>
             /\ m_name \notin targetDbs

C3_Witness ==
    /\ m_pc = "done"
    /\ m_exists = "no"
    /\ ~m_create
    /\ m_result = "ErrMissing"

\* C4: when the database exists and drop_if_exists is false the call returns
\* Ok(false) and issues no terminate, DROP or CREATE; the server is unchanged,
\* whatever create_if_absent is.
C4_ExistingKept ==
    (m_pc = "done" /\ m_exists = "yes" /\ ~m_drop) =>
        /\ m_result = "OkFalse"
        /\ AdminIssued = <<>>
        /\ targetDbs = dbs0

C4_Witness ==
    /\ m_pc = "done"
    /\ m_exists = "yes"
    /\ ~m_drop
    /\ m_create
    /\ m_result = "OkFalse"
    /\ m_name \in targetDbs

\* C5: an attempt to drop 'postgres' returns the protected-database error without
\* contacting the server: no connection was opened and no query was sent.
C5_ProtectedWithoutContact ==
    (IsPostgresName(m_name) /\ m_drop /\ m_result = "ErrProtected")
        => SelectKinds(trace, ServerContact) = <<>>

---------------------------------------------------------------------------
(* Properties of the sync and backup loops (SpecSync, SpecBackup, SpecRun) *)

ChildKinds == {"schema_dump", "data_dump", "schema_apply", "data_apply"}
TargetKinds == {"connect", "exists", "terminate", "drop", "create"}
LoopKinds == ChildKinds \cup TargetKinds

\* position of a step in the per-database order of the sync pipeline
StepRank(kind) ==
    CASE kind = "schema_dump" -> 1
      [] kind = "data_dump" -> 2
      [] kind \in TargetKinds -> 3
      [] kind = "schema_apply" -> 4
      [] kind = "data_apply" -> 5
      [] OTHER -> 0

SucceededBefore(k, kind, idx) ==
    \E j \in 1..(k - 1) :
        trace[j].kind = kind /\ trace[j].idx = idx /\ trace[j].ok

\* C6: for each database of a sync run the steps occur in the order schema dump,
\* data dump, target drop/create, schema apply, data apply; each starts only after
\* the one before it succeeded, so nothing is sent to the target server for D
\* unless both dumps of D succeeded.
C6_SyncStepOrder ==
    op = "sync" =>
      \A k \in 1..Len(trace) :
        LET e == trace[k] IN
        /\ \A j \in 1..(k - 1) :
             trace[j].idx = e.idx =>
               /\ StepRank(trace[j].kind) <= StepRank(e.kind)
               /\ StepRank(trace[j].kind) = StepRank(e.kind) => e.kind \in TargetKinds
        /\ e.kind = "data_dump" => SucceededBefore(k, "schema_dump", e.idx)
        /\ e.kind \in TargetKinds =>
             /\ SucceededBefore(k, "schema_dump", e.idx)
             /\ SucceededBefore(k, "data_dump", e.idx)
        /\ e.kind = "schema_apply" => SucceededBefore(k, "create", e.idx)
        /\ e.kind = "data_apply" => SucceededBefore(k, "schema_apply", e.idx)

C6_Witness ==
    /\ op = "sync"
    /\ pc = "done"
    /\ result = "Ok"
    /\ \E k \in 1..Len(trace) : trace[k].kind = "drop" /\ trace[k].ok
    /\ trace[Len(trace)].kind = "data_apply"

LoopSteps == SelectKinds(trace, LoopKinds)

\* the step that completes a database in the loop of the run
LastStepOf(o) == IF o = "sync" THEN "data_apply" ELSE "data_dump"

\* C7: in the backup dump loop and in the sync loop the databases are processed
\* one at a time in list order: a step for a later database follows only the
\* successful last step of the earlier one, and a failed step is the last step
\* of the run, which then returns an error.
C7_OneDatabaseAtATime ==
    /\ \A k \in 1..Len(LoopSteps) :
         /\ LoopSteps[k].idx \in 1..Len(dbs)
         /\ LoopSteps[k].kind # "connect" => LoopSteps[k].db = dbs[LoopSteps[k].idx]
         /\ ~LoopSteps[k].ok =>
              /\ k = Len(LoopSteps)
              /\ pc \in {"done", "s_manage_wait"}
              /\ pc = "done" => result \notin {"Ok", "none"}
    /\ \A k \in 2..Len(LoopSteps) :
         /\ LoopSteps[k - 1].idx <= LoopSteps[k].idx
         /\ LoopSteps[k - 1].idx < LoopSteps[k].idx =>
              /\ LoopSteps[k - 1].ok
              /\ LoopSteps[k - 1].kind = LastStepOf(op)

C7_Witness ==
    /\ op = "backup"
    /\ pc = "done"
    /\ Len(dbs) = 2
    /\ ~Skipped(dbs[2], cfgList)
    /\ LoopSteps # <<>>
    /\ LoopSteps[Len(LoopSteps)].idx = 1
    /\ ~LoopSteps[Len(LoopSteps)].ok
    /\ result \in {"ErrSchemaDump", "ErrDataDump"}

---------------------------------------------------------------------------
(* Properties of the psql and pg_restore runners (SpecTool) *)

KillsIssued == KindsOf(SelectKinds(trace, {"kill_pid", "pkill"}))

\* C9: once the timer has fired the call never returns success; it returns the
\* timed-out error after the kill by PID and then the kill by pattern were issued,
\* in execute_sql_file_with_psql and in restore_database_from_dump.
C9_TimeoutKillsAndFails ==
    /\ t_timedOut => t_result \in {"none", "ErrTimeout"}
    /\ (t_timedOut /\ t_pc = "done") =>
         /\ t_result = "ErrTimeout"
         /\ KillsIssued = <<"kill_pid", "pkill">>
    /\ t_result = "ErrTimeout" => t_timedOut

C9_Witness ==
    /\ op = "pg_restore"
    /\ t_timedOut
    /\ t_pc = "done"
    /\ t_result = "ErrTimeout"

\* C10: execute_sql_file_with_psql returns Ok exactly when the psql child exited
\* with status success before the timer fired; every other exit status is an error
\* whatever stdout and stderr contain.
C10_PsqlStrictSuccess ==
    (op = "psql" /\ t_pc = "done") =>
        (t_result = "Ok" <=> (t_out.status = "0" /\ ~t_timedOut))

C10_Witness ==
    /\ op = "psql"
    /\ t_pc = "done"
    /\ t_out.status = "1"
    /\ t_out.stdout = <<>>
    /\ t_out.stderr = <<>>
    /\ t_result = "ErrFailed"

---------------------------------------------------------------------------
(* Properties of the pg_restore triage (SpecTool) *)

\* pg_restore ran to completion with a non-success exit status
RestoreExitedNonZero ==
    /\ op = "pg_restore"
    /\ t_pc = "done"
    /\ t_out.status \notin {"none", "0"}

\* one of the two benign signatures occurs on stdout or on stderr
BenignSignature(stdout, stderr) ==
    \/ Contains(stderr, PatTransactionTimeout)
    \/ Contains(stdout, PatTransactionTimeout)
    \/ Contains(stderr, PatErrorsIgnored)
    \/ Contains(stdout, PatErrorsIgnored)

\* C11: when pg_restore exits non-zero and its stderr or stdout contains the
\* transaction_timeout configuration warning or 'errors ignored on restore' (with
\* any error count, on either stream), restore_database_from_dump reports success.
C11_BenignWarningsTolerated ==
    (RestoreExitedNonZero /\ BenignSignature(t_out.stdout, t_out.stderr))
        => t_result = "Ok"

\* C12: whenever pg_restore exits non-zero and its captured output matches neither
\* benign signature (also when nothing was captured, also on exit 137, 143 or 9),
\* restore_database_from_dump returns an error.
C12_OtherErrorsNotSwallowed ==
    (RestoreExitedNonZero /\ ~BenignSignature(t_out.stdout, t_out.stderr))
        => t_result \in {"ErrConnTimeout", "ErrKilled", "ErrFailed"}

---------------------------------------------------------------------------
(* Properties of the identifiers handed to child processes (SpecRun) *)

\* the identifier is empty or has a character outside [A-Za-z0-9_-]
OutsideIdentifierClass(name) ==
    \/ name = <<>>
    \/ \E i \in 1..Len(name) :
         name[i] \notin Range(UpperCase) \cup Range(LowerCase) \cup Digits \cup {"_", "-"}

\* the child processes and admin statements that carry a database identifier
IdentifierKinds ==
    {"schema_dump", "data_dump", "schema_apply", "data_apply",
     "exists", "terminate", "drop", "create"}

\* C13: no pg_dump, psql or pg_restore process and no admin statement is launched
\* with an identifier that is empty or contains a character outside [A-Za-z0-9_-];
\* such an identifier is rejected before any child process is spawned.
C13_NoChildWithBadIdentifier ==
    \A i \in 1..Len(trace) :
        trace[i].kind \in IdentifierKinds => ~OutsideIdentifierClass(trace[i].db)

---------------------------------------------------------------------------
(* Properties of the backup dump loop (SpecBackup) *)

DumpKinds == {"schema_dump", "data_dump"}

\* pg_dump was started for the database at position i of the list
DumpStartedAt(i) ==
    \E k \in 1..Len(trace) : trace[k].kind = "schema_dump" /\ trace[k].idx = i

\* positions of the list on which the loop has already decided: skip or dump
DecidedPositions ==
    {i \in 1..Len(dbs) :
        \/ i < cur
        \/ i = cur /\ pc = "b_data"
        \/ i = cur /\ pc = "done" /\ result \in {"ErrSchemaDump", "ErrDataDump"}}

PostgresListed == cfgList.some /\ ListContains(cfgList.list, NamePostgres)

---------------------------------------------------------------------------
(* Properties of the sequence repair and the verification (SpecSeq) *)

\* position of a step in the per-database order of the restore
RestoreRank(kind) ==
    CASE kind = "schema_apply" -> 1
      [] kind = "data_apply"   -> 2
      [] kind = "enumerate"    -> 3
      [] kind = "setval"       -> 3
      [] kind = "probe"        -> 4
      [] OTHER                 -> 0

RestoreSteps == SelectSeq(trace, LAMBDA e : RestoreRank(e.kind) > 0)

\* C15: within one database schema apply precedes data apply, data apply precedes
\* sequence repair, and sequence repair precedes the probes of the well-known
\* tables: verify_restore runs its sequence reset before it probes them.
C15_RepairBeforeProbes ==
    /\ \A i, j \in 1..Len(RestoreSteps) :
         i < j => RestoreRank(RestoreSteps[i].kind) <= RestoreRank(RestoreSteps[j].kind)
    /\ (op = "verify" /\ \E i \in 1..Len(trace) : trace[i].kind = "probe")
         => \E j \in 1..Len(trace) : trace[j].kind = "enumerate"

\* the call returned Ok(())
RepairReportedSuccess == q_pc = "done" /\ q_result = "Ok"

\* tables of the database whose id column owns its sequence
OwningTables == {t \in SeqTables : q_db[t].exists /\ q_db[t].seq = "owned"}

\* C16: after a repair pass that reports success every sequence owned by a column
\* of a public table stands at COALESCE(MAX(column), 0) + 1 with is_called = false,
\* so nextval exceeds the column maximum, for INT4 and INT8 columns alike, in
\* reset_all_sequences and in the reset run inside verify_restore.
C16_OwnedSequencesPastMax ==
    RepairReportedSuccess =>
        \A t \in OwningTables :
            /\ q_db[t].next = q_db[t].max + 1
            /\ ~q_db[t].called
            /\ nextval(q_db, t) > q_db[t].max

SetvalIssuedFor(t) ==
    \E k \in 1..Len(trace) : trace[k].kind = "setval" /\ trace[k].db = <<t>>

\* C17: every repair pass that returns also goes through the fixed list of
\* well-known tables (migrations, schema_migrations, users, permissions, groups,
\* otp), also when the enumeration found no owned sequence: each listed table that
\* exists with its <table>_id_seq sequence gets its setval; a missing table or
\* sequence is skipped and the pass still reports success.
C17_CommonTablesAlwaysProcessed ==
    q_pc = "done" =>
        \/ q_result = "ErrFetch"
        \/ q_result = "ErrQuery"
        \/ q_result = "ErrTimeout"
        \/ /\ q_result = "Ok"
           /\ \A i \in 1..Len(CommonTables) :
                SequenceExists(q_db, CommonTables[i]) => SetvalIssuedFor(CommonTables[i])

---------------------------------------------------------------------------
(* Properties of the psql invocation (SpecTool) *)

\* psql was started for the file of the given kind
PsqlSpawnedFor(ctx) == op = "psql" /\ t_pid /\ t_in.ctx = ctx

\* base tables of the public schema of a restored database
PublicTables == Range(CommonTables) \cup SeqTables

\* C18: every data apply, for every mapping S -> T including S = T, executes the
\* data body inside the wrapping: SET session_replication_role = 'replica' and a
\* TRUNCATE ... CASCADE of every base table of the public schema before it, SET
\* session_replication_role = 'origin' after it (which is what makes a second run
\* of the same data file leave the same rows as the first).
C18_DataApplyWrapped ==
    PsqlSpawnedFor("data") =>
        /\ t_wrapped
        /\ \A table \in PublicTables : WrapperTruncates(table)

HasArg(a) == \E i \in 1..Len(t_args) : t_args[i] = a

\* C19: psql is invoked without single-transaction mode for the schema file and
\* with -1 for the data file.
C19_SingleTransactionOnlyForData ==
    /\ PsqlSpawnedFor("schema") => ~HasArg("-1")
    /\ PsqlSpawnedFor("data") => HasArg("-1")

---------------------------------------------------------------------------
(* Properties of the name remapper (SpecRename) *)

IdentifierChars == Range(UpperCase) \cup Range(LowerCase) \cup Digits \cup {"_"}

\* an identifier token of the text starts at position i
TokenStartsAt(text, i) ==
    /\ text[i] \in IdentifierChars
    /\ i = 1 \/ text[i - 1] \notin IdentifierChars

\* last position of the token that starts at i
TokenEnd(text, i) ==
    CHOOSE j \in i..Len(text) :
        /\ \A k \in i..j : text[k] \in IdentifierChars
        /\ j = Len(text) \/ text[j + 1] \notin IdentifierChars

TokenStarts(text) ==
    SelectSeq([i \in 1..Len(text) |-> i], LAMBDA i : TokenStartsAt(text, i))

\* the identifier tokens of the text, in order
Tokens(text) ==
    [k \in 1..Len(TokenStarts(text)) |->
        SubSeq(text, TokenStarts(text)[k], TokenEnd(text, TokenStarts(text)[k]))]

\* position i lies inside a single-quoted string literal
InStringLiteral(text, i) ==
    Cardinality({j \in 1..(i - 1) : text[j] = "'"}) % 2 = 1

\* position i lies in a word that is a URL (scheme://...)
InUrlLiteral(text, i) ==
    \E a \in 1..i :
        /\ \A k \in a..i : text[k] \notin Whitespace
        /\ \E k \in a..(i - 1) : SubSeq(text, k, k + 2) = <<":", "/", "/">>

CharAt(text, i) == IF i \in 1..Len(text) THEN text[i] ELSE ""

\* the token at i..j is a reference of one of the kinds the remapper is to rewrite:
\* after \c, quoted, or followed by '.', ';' or a space
RewrittenKind(text, i, j) ==
    \/ i > 3 /\ SubSeq(text, i - 3, i - 1) = <<"\\", "c", " ">>
    \/ CharAt(text, i - 1) = "\"" /\ CharAt(text, j + 1) = "\""
    \/ CharAt(text, j + 1) \in {".", ";", " "}

\* the token that starts at i is a standalone reference to the source name
StandaloneReference(text, i, s) ==
    /\ SubSeq(text, i, TokenEnd(text, i)) = s
    /\ ~InStringLiteral(text, i)
    /\ ~InUrlLiteral(text, i)
    /\ RewrittenKind(text, i, TokenEnd(text, i))

\* C20: for S # T the output of replace_database_references has T in the place of
\* every standalone reference to S (after \c, as qualifier 'S.', quoted, followed
\* by ';' or a space), so that no such reference is left, and every other token
\* (inside a string literal, inside a URL, or a longer token that contains S) is
\* the token of the input.
C20_StandaloneReferencesRenamed ==
    (op = "rename" /\ n_pc = "done" /\ n_src # n_tgt) =>
        /\ Len(Tokens(n_out)) = Len(Tokens(n_text))
        /\ \A k \in 1..Len(Tokens(n_text)) :
             IF StandaloneReference(n_text, TokenStarts(n_text)[k], n_src)
             THEN Tokens(n_out)[k] = n_tgt
             ELSE (\/ Tokens(n_text)[k] # n_src
                   \/ InStringLiteral(n_text, TokenStarts(n_text)[k])
                   \/ InUrlLiteral(n_text, TokenStarts(n_text)[k]))
                      => Tokens(n_out)[k] = Tokens(n_text)[k]

---------------------------------------------------------------------------
(* Properties of the remapper when source and target coincide (SpecRemap) *)

\* execute_sql_file_with_psql was called with the same source and target name
SameNamesGiven ==
    /\ op = "psql"
    /\ t_in.src.some
    /\ t_in.tgt.some
    /\ t_in.src.name = t_in.tgt.name

\* the file handed to psql with -f
FileArg == t_args[8]

\* C21: with src = dst replace_database_references returns its input unchanged,
\* and execute_sql_file_with_psql runs psql on the original file: no temporary
\* file is ever created and nothing is wrapped around the content.
C21_IdentityRename ==
    /\ (op = "rename" /\ n_pc = "done" /\ n_src = n_tgt) => n_out = n_text
    /\ SameNamesGiven =>
         /\ t_temp = "none"
         /\ ~t_wrapped
         /\ t_pid => FileArg = "sql_file_path"

C21_Witness ==
    /\ SameNamesGiven
    /\ t_pc = "done"
    /\ t_result = "Ok"
    /\ t_temp = "none"
    /\ FileArg = "sql_file_path"

---------------------------------------------------------------------------
(* Properties of the start of the sync and backup runs (SpecSync, SpecRun) *)

\* databases_to_sync is None or an empty list
NothingToSync == ~cfgList.some \/ cfgList.list = <<>>

\* C22: with an empty or missing database list the sync run returns success as a
\* no-op: nothing was dumped, managed or restored, and the result is Ok whatever
\* else holds in the environment (for instance which client binaries are on PATH).
C22_EmptyListIsNoOp ==
    (op = "sync" /\ pc = "done" /\ NothingToSync) =>
        /\ result = "Ok"
        /\ trace = <<>>

RequiredTools == IF op = "sync" THEN {"pg_dump", "psql", "pg_restore"} ELSE {"pg_dump"}

ToolMissingResults ==
    {"ErrToolMissing_pg_dump", "ErrToolMissing_psql", "ErrToolMissing_pg_restore"}

---------------------------------------------------------------------------
(* Properties of the restore flow (SpecRestore) *)

\* the restore stopped because the schema file of the current database is missing
AbortedOnMissingSchema ==
    /\ op = "restore"
    /\ f_pc = "done"
    /\ f_result = "ErrSchemaFileNotFound"

ChangesIssuedFor(db) ==
    {k \in 1..Len(trace) : trace[k].kind \in {"drop", "create"} /\ trace[k].db = db}

\* C24: when the schema file of a database named by the restore mapping is missing,
\* the restore aborts with the error naming that file, and no DROP nor any other
\* change of the target server (such as CREATE DATABASE) has been issued for that
\* database before the abort.
C24_MissingSchemaAbortsBeforeChange ==
    AbortedOnMissingSchema =>
        /\ BackupFile(f_list[f_i], "schema") \notin f_files
        /\ ChangesIssuedFor(Restored(f_list[f_i])) = {}


---------------------------------------------------------------------------
(* Properties of verify_restore (SpecSeq) *)

\* C25: verification is never fatal on its own: verify_restore returns Ok whatever
\* it finds, a failing table-list query, a failing probe and a failing sequence
\* enumeration included.
C25_VerificationNeverFatal ==
    (op = "verify" /\ q_pc = "done") => q_result = "Ok"


---------------------------------------------------------------------------
(* Properties of create_tar_gz_archive (SpecArchive) *)

\* the relative paths of everything below the source directory
PathsBelowRoot == Below(a_tree.nodes, a_root)

\* C26: an archive written by create_tar_gz_archive has no entry for the root of
\* the source directory, and every entry path is relative to that root: it is the
\* path, from the root, of something the source directory holds.
C26_EntriesRelativeNoRoot ==
    op = "archive" =>
        \A k \in 1..Len(a_entries) :
            /\ a_entries[k] # <<>>
            /\ Head(a_entries[k]) # "/"
            /\ a_entries[k] \in PathsBelowRoot

C26_Witness ==
    /\ op = "archive"
    /\ a_pc = "done"
    /\ a_result = "Ok"
    /\ Node(a_root \o <<"a", "b">>, "file") \in a_tree.nodes
    /\ Node(a_root \o <<"b">>, "file") \in a_tree.nodes
    /\ \E k \in 1..Len(a_entries) : a_entries[k] = <<"a", "b">>
    /\ \E k \in 1..Len(a_entries) : a_entries[k] = <<"b">>


---------------------------------------------------------------------------
(* Properties of the staging directory of a backup run (SpecBackup) *)

\* C27: the staging directory of a backup run is deleted once the archive is
\* sealed: when a backup run ends successfully the timestamped staging directory
\* no longer exists while the archive file in the local backup directory does.
C27_StagingRemovedAfterArchive ==
    (op = "backup" /\ pc = "done" /\ result = "Ok") =>
        /\ archive
        /\ ~staging


---------------------------------------------------------------------------
(* Properties of upload_file_to_s3 (SpecShip) *)

\* C28: an upload that fails is retried: up to 5 attempts are made, the call
\* returns Ok as soon as one attempt succeeds and returns an error only after the
\* fifth consecutive failed attempt.
C28_UploadRetriedFiveTimes ==
    (op = "upload" /\ u_pc = "done") =>
        /\ u_result = "Ok" => u_sends \in 1..5
        /\ u_result = "ErrUpload" => u_sends = 5


---------------------------------------------------------------------------
(* Properties of the environment of the client commands (SpecRun) *)

\* C29: PGCONNECT_TIMEOUT=30 is set in the environment of every PostgreSQL client
\* command a pipeline spawns: every pg_dump of backup and sync, every psql and
\* pg_restore of restore and sync.
C29_ConnectTimeoutOnEveryChild ==
    \A k \in 1..Len(pgChildren) : <<"PGCONNECT_TIMEOUT", "30">> \in pgChildren[k].env


---------------------------------------------------------------------------
(* Properties of the database_list parsers (SpecParse) *)

BothParsed == op = "parse" /\ c_pc = "done"

ListedNames == {c_value.items[k].s : k \in 1..Len(c_value.items)}

ObjectKeys == {m.key : m \in c_value.members}

ArrayOfNames == c_value.kind = "array" /\ AllStrings(c_value.items)

ObjectOfNames == c_value.kind = "object" /\ AllStringValues(c_value.members)

\* C30: parsing database_list: for restore an array of names yields the identity
\* mapping over exactly the listed names and an object yields exactly its
\* source -> target pairs; for backup and sync an array yields the listed names in
\* order and an object yields exactly its key set; an absent value yields None and
\* a value that is neither array nor object is an error in both parsers.
C30_DatabaseListParsing ==
    BothParsed =>
        /\ ArrayOfNames =>
             /\ c_restore = ParseOk(TRUE, {MapEntry(n, n) : n \in ListedNames})
             /\ c_backup = ParseOk(TRUE, StringsOf(c_value.items))
        /\ ObjectOfNames =>
             /\ c_restore = ParseOk(TRUE, {MapEntry(m.key, m.val.s) : m \in c_value.members})
             /\ c_backup.state = "Ok" /\ c_backup.some
             /\ Len(c_backup.val) = Cardinality(ObjectKeys)
             /\ {c_backup.val[k] : k \in 1..Len(c_backup.val)} = ObjectKeys
        /\ c_value.kind = "absent" =>
             /\ c_restore.state = "Ok" /\ ~c_restore.some
             /\ c_backup.state = "Ok" /\ ~c_backup.some
        /\ c_value.kind \notin {"absent", "array", "object"} =>
             /\ c_restore.state = "Err"
             /\ c_backup.state = "Err"

C30_Witness ==
    /\ BothParsed
    /\ c_value.kind = "object"
    /\ c_value.members = {Member("db1", JStr("dev")), Member("db2", JStr("db2"))}
    /\ c_backup.val = <<"db2", "db1">>
    /\ c_restore.val = {MapEntry("db1", "dev"), MapEntry("db2", "db2")}


---------------------------------------------------------------------------
(* Properties of the configuration loading (SpecConfig) *)

\* all five required s3_storage fields are present and non-empty
AllFiveFieldsGiven ==
    /\ g_raw.s3.present
    /\ \A f \in S3Fields : g_raw.s3.fields[f].some /\ g_raw.s3.fields[f].val # <<>>

ConfigLoaded == op = "config" /\ g_pc \in {"g_backup", "g_restore", "done"}
                    /\ g_result.state # "ErrConfigFile"

\* C31: the object store is enabled exactly when all five required s3_storage
\* fields are present and non-empty: spaces_config is Some exactly then,
\* BackupConfig.upload_to_spaces is true exactly then, and a restore whose archive
\* path starts with s3:// is rejected when the configuration is loaded while the
\* object store is not enabled.
C31_ObjectStoreEnabledIffAllFive ==
    ConfigLoaded =>
        /\ g_spaces <=> AllFiveFieldsGiven
        /\ (g_raw.choice = "backup" /\ g_result.state = "Ok") =>
               (g_result.upload <=> AllFiveFieldsGiven)
        /\ (g_raw.choice = "restore" /\ g_pc = "done" /\ g_raw.archive = Some(PathS3)
              /\ ~AllFiveFieldsGiven) => g_result.state \notin {"Ok", "none"}

C31_Witness ==
    /\ op = "config"
    /\ g_pc = "done"
    /\ g_raw.choice = "restore"
    /\ g_raw.archive = Some(PathS3)
    /\ g_raw.s3.present
    /\ g_raw.s3.fields["region"] = Some(<<>>)
    /\ \A f \in S3Fields \ {"region"} : g_raw.s3.fields[f] = Some(<<"x">>)
    /\ g_result.state = "ErrS3NotConfigured"
    /\ ~g_spaces


---------------------------------------------------------------------------
(* Further properties of manage_target_database (SpecManage) *)

\* C32: manage_target_database is all-or-nothing about the existence of the target
\* database: whenever it returns an error, the database exists afterwards if and
\* only if it existed before the call.
C32_ErrorLeavesExistenceUnchanged ==
    (op = "manage" /\ m_pc = "done" /\ m_result \in ManageErrors) =>
        (m_name \in targetDbs <=> m_name \in dbs0)


\* the call is for the database that the path of the configured target URL names
TargetIsUrlDatabase == m_url.valid /\ m_url.path = m_name

\* C33: the drop guard rejects a drop exactly when the target name equals
\* 'postgres' ignoring ASCII case: its second disjunct, which compares with the
\* database named in the target URL, rejects no other name, so a target that is
\* the non-'postgres' database of the target URL is dropped like any other.
C33_GuardRejectsOnlyPostgres ==
    op = "manage" =>
        /\ m_result = "ErrProtected" => IsPostgresName(m_name)
        /\ m_pc \in {"terminate", "drop"} => ~IsPostgresName(m_name)
        /\ DropGuard(m_name, m_url.path) <=> IsPostgresName(m_name)

C33_Witness ==
    /\ op = "manage"
    /\ m_pc = "done"
    /\ TargetIsUrlDatabase
    /\ m_name = NameApp
    /\ m_name \in dbs0
    /\ m_result = "OkTrue"
    /\ \E i \in 1..Len(trace) : trace[i].kind = "drop" /\ trace[i].db = NameApp /\ trace[i].ok


---------------------------------------------------------------------------
(* Further properties of replace_database_references (SpecRename) *)

\* the number of characters a pattern has in front of the source name
RECURSIVE LeadLength(_, _)
LeadLength(pattern, s) ==
    IF IsPrefix(s, pattern) THEN 0 ELSE 1 + LeadLength(Tail(pattern), s)

\* where the source name stands in the text inside a match of one of the patterns
AnchoredOccurrences(text, s) ==
    UNION {{m + LeadLength(RenamePatterns(s)[k], s) :
               m \in MatchPositions(text, RenamePatterns(s)[k])} :
           k \in 1..Len(RenamePatterns(s))}

\* the text with the name replaced at the given positions, all at once
RECURSIVE ReplaceAt(_, _, _, _)
ReplaceAt(text, positions, s, t) ==
    IF positions = {} THEN text
    ELSE LET p == CHOOSE m \in positions : \A n \in positions : n <= m
         IN ReplaceAt(SubSeq(text, 1, p - 1) \o t \o SubSeq(text, p + Len(s), Len(text)),
                      positions \ {p}, s, t)

\* C34: replace_database_references replaces each anchored occurrence of the
\* source name exactly once: applying the patterns one after another gives the
\* text in which all anchored occurrences are replaced at once, also when the
\* target name begins with the source name and when two occurrences share a
\* delimiter.
C34_EachOccurrenceReplacedOnce ==
    (op = "rename" /\ n_pc = "done" /\ n_src # n_tgt) =>
        n_out = ReplaceAt(n_text, AnchoredOccurrences(n_text, n_src), n_src, n_tgt)


---------------------------------------------------------------------------
(* Properties of the failure handling of reset_all_sequences (SpecSeq) *)

\* the outcomes of the per-sequence loop, one event per processed sequence,
\* followed by the setvals of the well-known tables
ResetOutcomes ==
    SelectSeq(trace, LAMBDA e : e.kind \in {"setval", "reset_failed"})

\* the first n owned sequences each have their outcome, in enumeration order
OwnedProcessed(n) ==
    /\ Len(ResetOutcomes) >= n
    /\ \A k \in 1..n : ResetOutcomes[k].db = <<q_seqs[k]>>

\* C35: in reset_all_sequences a failed MAX query, an undecodable maximum or a
\* failed setval of one sequence is logged and counted, the remaining sequences
\* are still processed and the pass still returns Ok; the pass returns an error
\* only when the catalog enumeration fails, or when the timer of
\* reset_sequences_with_timeout expires.
C35_SequenceFailureNotFatal ==
    op = "reset" =>
        /\ q_pc = "done" =>
             /\ q_result \in {"Ok", "ErrFetch", "ErrTimeout"}
             /\ q_result = "ErrFetch" => trace = <<>>
        /\ q_pc = "q_loop" =>
             /\ Len(ResetOutcomes) = q_i - 1
             /\ OwnedProcessed(q_i - 1)
        /\ (q_pc = "q_common" \/ RepairReportedSuccess) => OwnedProcessed(Len(q_seqs))

C35_Witness ==
    /\ op = "reset"
    /\ RepairReportedSuccess
    /\ Len(q_seqs) >= 2
    /\ ResetOutcomes[1].kind = "reset_failed"
    /\ ResetOutcomes[2].kind = "setval"
    /\ ResetOutcomes[2].db = <<q_seqs[2]>>


---------------------------------------------------------------------------
(* Properties of download_file_from_s3 (SpecDownload) *)

\* C36: download_file_from_s3 returns Ok only when the complete object body has
\* been written to the destination file; a body read that fails after some chunks
\* were written yields an error, not success with a truncated file.
C36_OkOnlyWithCompleteFile ==
    (op = "download" /\ d_pc = "done" /\ d_result = "Ok") =>
        Bytes(d_written) = Bytes(d_body)


---------------------------------------------------------------------------
(* Properties of the list returned by dump_databases (SpecBackup) *)

\* both pg_dump runs for the list position i ended with success
BothDumpsSucceededAt(i) ==
    /\ \E k \in 1..Len(trace) :
         trace[k].kind = "schema_dump" /\ trace[k].idx = i /\ trace[k].ok
    /\ \E k \in 1..Len(trace) :
         trace[k].kind = "data_dump" /\ trace[k].idx = i /\ trace[k].ok

RECURSIVE DumpedUpTo(_)
DumpedUpTo(n) ==
    IF n = 0 THEN <<>>
    ELSE IF BothDumpsSucceededAt(n) THEN Append(DumpedUpTo(n - 1), dbs[n])
    ELSE DumpedUpTo(n - 1)

\* C37: whenever dump_databases returns Ok the returned list is non-empty and
\* holds, in input order, exactly the databases whose schema dump and data dump
\* both succeeded; a run in which every candidate is skipped does not return Ok
\* with an empty list.
C37_ReturnedListNonEmpty ==
    (op = "backup" /\ pc = "b_compress") =>
        /\ dumped = DumpedUpTo(Len(dbs))
        /\ dumped # <<>>


---------------------------------------------------------------------------
(* Properties of the entries of the archive (SpecArchive) *)

\* how often the relative path `name` was appended to the archive
TimesAppended(name) == Cardinality({k \in 1..Len(a_entries) : a_entries[k] = name})

\* C38: create_tar_gz_archive writes every regular file under the source
\* directory into the archive exactly once, at every nesting depth: a file
\* inside a subdirectory is not appended both by the directory walk and by the
\* recursive append of its parent directory.
C38_EachFileArchivedOnce ==
    (op = "archive" /\ a_pc = "done" /\ a_result = "Ok") =>
        \A n \in a_tree.nodes :
            n.kind = "file" => TimesAppended(strip_prefix(n.path, a_root).rest) = 1


---------------------------------------------------------------------------
(* Properties of restore_schema (SpecSchema) *)

\* the statements that reached the server, in the order of their execution
Executions == SelectSeq(trace, LAMBDA e : e.kind \in ExecOutcomes)

StmtRank(stmt) ==
    IF IsSequenceStmt(stmt) THEN 1 ELSE IF IsTableStmt(stmt) THEN 2 ELSE 3

\* sequences first, then tables, then everything else
PhasesInOrder ==
    \A i, j \in 1..Len(Executions) :
        i < j => StmtRank(Executions[i].db) <= StmtRank(Executions[j].db)

\* at most MAX_ATTEMPTS passes, and a pass after the first executes only
\* statements that failed in the pass before it
RetriesOnlyFailed ==
    /\ k_attempts <= MAX_ATTEMPTS
    /\ \A j \in 1..Len(Executions) :
         (IsTableStmt(Executions[j].db) /\ Executions[j].idx > 1) =>
             \E i \in 1..(j - 1) :
                 /\ Executions[i].db = Executions[j].db
                 /\ Executions[i].idx = Executions[j].idx - 1
                 /\ Executions[i].kind = "exec_failed"

SequenceStmtFailed ==
    \E i \in 1..Len(Executions) :
        IsSequenceStmt(Executions[i].db) /\ Executions[i].kind = "exec_failed"

TableFailedInLastPass ==
    \E i \in 1..Len(Executions) :
        /\ IsTableStmt(Executions[i].db)
        /\ Executions[i].idx = MAX_ATTEMPTS
        /\ Executions[i].kind = "exec_failed"

\* the schema file could not be read, or a transaction could not be begun,
\* committed or rolled back
InfrastructureFailed == k_result \in {"ErrRead", "ErrBegin", "ErrEnd"}

SchemaReturned == op = "schema" /\ k_pc = "done"

\* C39: restore_schema executes all CREATE SEQUENCE statements before any
\* CREATE TABLE statement and all CREATE TABLE statements before any other; the
\* table phase ends after at most 3 passes, each pass retrying only the
\* statements that failed in the previous one; the function returns an error if
\* and only if a sequence statement fails or some table statement has still
\* failed after the third pass.
C39_ErrorIffSequenceOrTableFailure ==
    op = "schema" =>
        /\ PhasesInOrder
        /\ RetriesOnlyFailed
        /\ SchemaReturned =>
             (k_result # "Ok" <=> (SequenceStmtFailed \/ TableFailedInLastPass))

\* C39, amended: the same order and the same bound on the passes; the function
\* returns an error if and only if a sequence statement fails with an error
\* other than 'already exists', some table statement has still failed after the
\* third pass, the schema file cannot be read, or a transaction cannot be begun,
\* committed or rolled back; a failed statement of the third group alone never
\* makes it return an error.
C39_ErrorIffFailureOrInfrastructure ==
    op = "schema" =>
        /\ PhasesInOrder
        /\ RetriesOnlyFailed
        /\ SchemaReturned =>
             /\ k_result \in {"Ok", "ErrSequence", "ErrTables", "ErrRead", "ErrBegin", "ErrEnd"}
             /\ k_result # "Ok" <=>
                  (SequenceStmtFailed \/ TableFailedInLastPass \/ InfrastructureFailed)
             /\ k_result = "ErrSequence" => SequenceStmtFailed
             /\ k_result = "ErrTables" => TableFailedInLastPass

C39_Witness ==
    /\ SchemaReturned
    /\ k_result = "Ok"
    /\ k_attempts = 2
    /\ \E i \in 1..Len(Executions) :
         IsOtherStmt(Executions[i].db) /\ Executions[i].kind = "exec_failed"


---------------------------------------------------------------------------
(* Properties of the result of run_restore_flow (SpecRestore) *)

\* the step `kind` succeeded for the list entry at position i
AppliedAt(kind, i) ==
    \E k \in 1..Len(trace) :
        trace[k].kind = kind /\ trace[k].idx = i /\ trace[k].ok

\* C40: run_restore_flow returns Ok only after every database named in the
\* database list has had its schema and its data restored; an earlier entry whose
\* '<name>_restored' database already exists, or cannot be connected to, does not
\* end the run with success while later entries are left unprocessed.
C40_OkOnlyAfterEveryDatabase ==
    (op = "restore" /\ f_pc = "done" /\ f_result = "Ok") =>
        \A i \in 1..Len(f_list) :
            /\ AppliedAt("data_apply", i)
            /\ f_isDir => AppliedAt("schema_apply", i)

====
